---- MODULE Spec2Model ----
(***************************************************************************)
(* Text recovery chain of the OCR service (functions-python/main.py):      *)
(* OCRService.extract_text_from_pdf, extract_text_from_image,              *)
(* preprocess_image and extract_text_with_vision_api.                      *)
(*                                                                         *)
(* Text is a sequence of tokens (strings).  " " and "\n" are the           *)
(* whitespace tokens; every other token holds visible characters.          *)
(* A confidence is a rational number of percent, [num, den].               *)
(***************************************************************************)
EXTENDS Integers, Sequences, FiniteSets, TLC

VARIABLES
    kind,            \* which entry point was called: "pdf" or "image"
    file_path,       \* its argument
    pc,              \* position in the running call
    extracted_data,  \* extract_text_from_pdf: the local dict
    text_content,    \* extract_text_from_pdf: the local string of the running stage
    page_num,        \* extract_text_from_pdf: pages the running stage's loop has consumed
    failed_step,     \* preprocess_image: the step that failed, "none" when none did
    processed_path,  \* preprocess_image: the local of line 151, <<>> before it
    written,         \* the paths cv2.imwrite wrote an image to
    vision_path,     \* extract_text_with_vision_api: its file_path argument
    response_error,  \* the service's response.error.message, "" when it reported none
    document,        \* the service's full_text_annotation, as far as it was iterated
    v,               \* extract_text_with_vision_api: its locals
    log,             \* what the except clauses printed, in order
    attempted,       \* the stages entered, in order
    returned_from,   \* the return statement that ended the call
    result,          \* the returned dict
    text,            \* extract_contract_information: its argument
    info_pc,         \* extract_contract_information: the pass to run next
    extracted_info,  \* extract_contract_information: the local dict
    now,             \* the clock datetime.now() reads: calendar day and minute
    usage,           \* the user's document of user_ai_usage: field -> count
    request,         \* _validate_rate_limit: position and locals of each running call
    admitted,        \* how many calls returned True, by the fields they named
    failures,        \* how many store operations raised
    ticks,           \* how often the clock moved on
    chat_history,    \* chat_with_contract: its argument
    question,        \* chat_with_contract: its argument
    chat_pc,         \* chat_with_contract: position in the running call
    history_text,    \* chat_with_contract: the lines of the local history_text
    response,        \* chat_with_contract: response.content, "" before the reply
    chat_result,     \* chat_with_contract: the returned dict
    sessions,        \* the chat_history fields of the documents of ai_chat_sessions
    first_history,   \* the chat_history of the first call of the conversation
    exchanges,       \* question and answer of every call that succeeded, in order
    calls            \* the calls the client made

ocr_vars == <<kind, file_path, pc, extracted_data, text_content, page_num,
              failed_step, processed_path, written,
              vision_path, response_error, document, v, log, attempted,
              returned_from, result>>
info_vars == <<text, info_pc, extracted_info>>
rate_vars == <<now, usage, request, admitted, failures, ticks>>
chat_vars == <<chat_history, question, chat_pc, history_text, response,
               chat_result, sessions, first_history, exchanges, calls>>
ai_vars == <<rate_vars, chat_vars>>
vars == <<ocr_vars, info_vars, ai_vars>>

(***************************************************************************)
(* Bounds                                                                  *)
(***************************************************************************)
\* pages a structural extractor iterates
MaxPages == 2
\* pages of a recognition response
MaxVPages == 2
\* blocks of a recognition response
MaxBlocks == 2
\* paragraphs of a recognition response
MaxParas == 2
\* words of a recognition response
MaxWords == 2

\* Inputs
PdfPaths == {<<"c", ".", "pdf">>}
ImagePaths == {<<"s", ".", "v2", ".", "png">>, <<"noext">>}
PageTexts == {<<>>, <<" ">>, <<"a">>}      \* what page.extract_text() returns
WordTexts == {"w"}                          \* ''.join(symbol.text ...)
WordConfidences == {0, 100}                 \* word.confidence, percent
DocTexts == {<<>>, <<"w", "\n">>}           \* document.text
ServiceMessages == {"quota"}                \* response.error.message, non-empty
Errors == {"err"}                           \* str(e) of an exception a library raised

(***************************************************************************)
(* Strings                                                                 *)
(***************************************************************************)
IsSpace(t) == t \in {" ", "\n"}

RECURSIVE LStrip(_)
LStrip(s) == IF s = <<>> THEN s
             ELSE IF IsSpace(Head(s)) THEN LStrip(Tail(s)) ELSE s

RECURSIVE RStrip(_)
RStrip(s) == IF s = <<>> THEN s
             ELSE IF IsSpace(s[Len(s)]) THEN RStrip(SubSeq(s, 1, Len(s) - 1)) ELSE s

\* str.strip()
Strip(s) == RStrip(LStrip(s))

\* f"\n--- Page {page_num + 1} ---\n"
PageMarker(n) == <<"\n", "--- Page " \o ToString(n) \o " ---", "\n">>

\* f"\n--- Page {page_num + 1} ---\n{page_text}"
MarkedPage(n, page_text) == PageMarker(n) \o page_text

(***************************************************************************)
(* Confidences                                                             *)
(***************************************************************************)
Max(a, b) == IF a >= b THEN a ELSE b

Ratio(n, d) == [num |-> n, den |-> d]
RatEq(a, b) == a.num * b.den = b.num * a.den
RatPositive(a) == a.num * a.den > 0

\* 0.0
ZeroConfidence == Ratio(0, 1)
\* line 96: 0.85
PdfplumberConfidence == 85
\* the first stage reporting the second stage's confidence
PyPDF2ConfidenceSwapped == PdfplumberConfidence

\* line 74: 0.9
PyPDF2Confidence == 90

(***************************************************************************)
(* Values                                                                  *)
(***************************************************************************)
NoResult == [none |-> TRUE]
NoMetadata == <<>>                                \* {}

\* the dict of lines 49-54
EmptyData == [text |-> <<>>, pages |-> <<>>, metadata |-> NoMetadata,
              confidence |-> ZeroConfidence]

\* an error dict that drops the exception
ErrorDataWithoutError(e) == [text |-> <<>>, pages |-> <<>>, metadata |-> NoMetadata,
                             confidence |-> ZeroConfidence]

\* the dict of lines 106-111, 124-129 and 240-245
ErrorData(e) == [text |-> <<>>, pages |-> <<>>, metadata |-> [error |-> e],
                 confidence |-> ZeroConfidence]

NoDocument == [present |-> FALSE, text |-> <<>>, pages |-> <<>>]
NoLocals == [none |-> TRUE]
\* extract_contract_information has not built its dict
NoInfo == [none |-> TRUE]

(***************************************************************************)
(* The state of an entry point that is not called                          *)
(***************************************************************************)
OcrIdle ==
    /\ kind = "none"
    /\ file_path = <<>>
    /\ pc = "idle"
    /\ extracted_data = NoResult
    /\ text_content = <<>>
    /\ page_num = 0
    /\ failed_step = "none"
    /\ processed_path = <<>>
    /\ written = {}
    /\ vision_path = <<>>
    /\ response_error = ""
    /\ document = NoDocument
    /\ v = NoLocals
    /\ log = <<>>
    /\ attempted = <<>>
    /\ returned_from = "none"
    /\ result = NoResult

InfoIdle ==
    /\ text = <<>>
    /\ info_pc = "idle"
    /\ extracted_info = NoInfo

RateIdle ==
    /\ now = [day |-> 0, minute |-> 0]
    /\ usage = <<>>
    /\ request = <<>>
    /\ admitted = <<>>
    /\ failures = 0
    /\ ticks = 0

ChatIdle ==
    /\ chat_history = <<>>
    /\ question = ""
    /\ chat_pc = "idle"
    /\ history_text = <<>>
    /\ response = ""
    /\ chat_result = NoInfo
    /\ sessions = <<>>
    /\ first_history = <<>>
    /\ exchanges = <<>>
    /\ calls = 0

Init ==
    /\ \/ kind = "pdf" /\ file_path \in PdfPaths
       \/ kind = "image" /\ file_path \in ImagePaths
    /\ pc = "call"
    /\ extracted_data = NoResult
    /\ text_content = <<>>
    /\ page_num = 0
    /\ failed_step = "none"
    /\ processed_path = <<>>
    /\ written = {}
    /\ vision_path = <<>>
    /\ response_error = ""
    /\ document = NoDocument
    /\ v = NoLocals
    /\ log = <<>>
    /\ attempted = <<>>
    /\ returned_from = "none"
    /\ result = NoResult
    /\ InfoIdle
    /\ RateIdle
    /\ ChatIdle

(***************************************************************************)
(* extract_text_from_pdf                                                   *)
(***************************************************************************)
\* the PyPDF2 stage without its try: its exceptions reach no handler
CatchAtUnguarded(site) ==
    CASE site = "PyPDF2" -> "uncaught"
      [] site = "pdfplumber" -> "except_pdfplumber"
      [] site = "preprocess" -> "except_preprocess"
      [] site = "Vision" -> "except_Vision"

\* the except clause that receives an exception raised at a position
CatchAt(site) ==
    CASE site = "PyPDF2" -> "except_PyPDF2"
      [] site = "pdfplumber" -> "except_pdfplumber"
      [] site = "preprocess" -> "except_preprocess"
      [] site = "Vision" -> "except_Vision"

\* lines 49-54
CallPdf ==
    /\ pc = "call" /\ kind = "pdf"
    /\ extracted_data' = EmptyData
    /\ pc' = "PyPDF2_open"
    /\ UNCHANGED <<info_vars, ai_vars>>
    /\ UNCHANGED <<failed_step, processed_path, written, response_error, kind, file_path, text_content, page_num, vision_path,
                   document, v, log, attempted, returned_from, result>>

\* lines 76-77: the handler of the PyPDF2 stage
ExceptPyPDF2(e) ==
    /\ log' = Append(log, "PyPDF2 extraction failed: " \o e)
    /\ pc' = "pdfplumber_open"

\* a raise inside the try of lines 57-75
RaiseInPyPDF2(e) ==
    IF CatchAt("PyPDF2") = "except_PyPDF2"
    THEN ExceptPyPDF2(e)
    ELSE pc' = "propagated" /\ log' = log

\* lines 58-60
PyPDF2Open ==
    /\ pc = "PyPDF2_open"
    /\ attempted' = Append(attempted, "PyPDF2")
    /\ \/ /\ pc' = "PyPDF2_pages" /\ log' = log
          /\ text_content' = <<>> /\ page_num' = 0
       \/ /\ \E e \in Errors : RaiseInPyPDF2(e)
          /\ UNCHANGED <<text_content, page_num>>
    /\ UNCHANGED <<info_vars, ai_vars>>
    /\ UNCHANGED <<failed_step, processed_path, written, response_error, kind, file_path, extracted_data, vision_path, document, v,
                   returned_from, result>>

\* line 64
PyPDF2PageHasText(page_text) == Strip(page_text) # <<>>

\* lines 62-70, one iteration
PyPDF2Page ==
    /\ pc = "PyPDF2_pages" /\ page_num < MaxPages
    /\ \/ \E page_text \in PageTexts :
             /\ IF PyPDF2PageHasText(page_text)
                THEN /\ text_content' = text_content \o MarkedPage(page_num + 1, page_text)
                     /\ extracted_data' =
                          [extracted_data EXCEPT !.pages =
                              Append(@, [page_number |-> page_num + 1,
                                         text |-> page_text,
                                         method |-> "PyPDF2"])]
                ELSE UNCHANGED <<text_content, extracted_data>>
             /\ page_num' = page_num + 1
             /\ UNCHANGED <<pc, log>>
       \/ /\ \E e \in Errors : RaiseInPyPDF2(e)
          /\ UNCHANGED <<text_content, extracted_data, page_num>>
    /\ UNCHANGED <<info_vars, ai_vars>>
    /\ UNCHANGED <<failed_step, processed_path, written, response_error, kind, file_path, vision_path, document, v, attempted,
                   returned_from, result>>

\* a stage that never returns its text
StageHasTextIgnored(tc) == FALSE

\* lines 72 and 94
StageHasText(tc) == Strip(tc) # <<>>

\* lines 72-75, after the last page
PyPDF2Done ==
    /\ pc = "PyPDF2_pages"
    /\ IF StageHasText(text_content)
       THEN /\ extracted_data' = [extracted_data EXCEPT
                                     !.text = text_content,
                                     !.confidence = Ratio(PyPDF2Confidence, 1)]
            /\ result' = extracted_data'
            /\ returned_from' = "PyPDF2"
            /\ pc' = "done"
       ELSE /\ pc' = "pdfplumber_open"
            /\ UNCHANGED <<extracted_data, result, returned_from>>
    /\ UNCHANGED <<info_vars, ai_vars>>
    /\ UNCHANGED <<failed_step, processed_path, written, response_error, kind, file_path, text_content, page_num, vision_path,
                   document, v, log, attempted>>

\* lines 98-99: the handler of the pdfplumber stage
ExceptPdfplumber(e) ==
    /\ log' = Append(log, "pdfplumber extraction failed: " \o e)
    /\ pc' = "Vision_call_pdf"

\* a raise inside the try of lines 80-97
RaiseInPdfplumber(e) ==
    IF CatchAt("pdfplumber") = "except_pdfplumber"
    THEN ExceptPdfplumber(e)
    ELSE pc' = "propagated" /\ log' = log

\* lines 81-82
PdfplumberOpen ==
    /\ pc = "pdfplumber_open"
    /\ attempted' = Append(attempted, "pdfplumber")
    /\ \/ /\ pc' = "pdfplumber_pages" /\ log' = log
          /\ text_content' = <<>> /\ page_num' = 0
       \/ /\ \E e \in Errors : RaiseInPdfplumber(e)
          /\ UNCHANGED <<text_content, page_num>>
    /\ UNCHANGED <<info_vars, ai_vars>>
    /\ UNCHANGED <<failed_step, processed_path, written, response_error, kind, file_path, extracted_data, vision_path, document, v,
                   returned_from, result>>

\* line 86: a non-empty string is true, '' and None are false
PdfplumberPageHasText(page_text) == page_text # <<>>

\* lines 84-92, one iteration
PdfplumberPage ==
    /\ pc = "pdfplumber_pages" /\ page_num < MaxPages
    /\ \/ \E page_text \in PageTexts :
             /\ IF PdfplumberPageHasText(page_text)
                THEN /\ text_content' = text_content \o MarkedPage(page_num + 1, page_text)
                     /\ extracted_data' =
                          [extracted_data EXCEPT !.pages =
                              Append(@, [page_number |-> page_num + 1,
                                         text |-> page_text,
                                         method |-> "pdfplumber"])]
                ELSE UNCHANGED <<text_content, extracted_data>>
             /\ page_num' = page_num + 1
             /\ UNCHANGED <<pc, log>>
       \/ /\ \E e \in Errors : RaiseInPdfplumber(e)
          /\ UNCHANGED <<text_content, extracted_data, page_num>>
    /\ UNCHANGED <<info_vars, ai_vars>>
    /\ UNCHANGED <<failed_step, processed_path, written, response_error, kind, file_path, vision_path, document, v, attempted,
                   returned_from, result>>

\* lines 94-97, after the last page
PdfplumberDone ==
    /\ pc = "pdfplumber_pages"
    /\ IF StageHasText(text_content)
       THEN /\ extracted_data' = [extracted_data EXCEPT
                                     !.text = text_content,
                                     !.confidence = Ratio(PdfplumberConfidence, 1)]
            /\ result' = extracted_data'
            /\ returned_from' = "pdfplumber"
            /\ pc' = "done"
       ELSE /\ pc' = "Vision_call_pdf"
            /\ UNCHANGED <<extracted_data, result, returned_from>>
    /\ UNCHANGED <<info_vars, ai_vars>>
    /\ UNCHANGED <<failed_step, processed_path, written, response_error, kind, file_path, text_content, page_num, vision_path,
                   document, v, log, attempted>>

\* line 102: return self.extract_text_with_vision_api(file_path, ...).  The
\* call is the last statement of the function: its locals are dead from here.
VisionCallPdf ==
    /\ pc = "Vision_call_pdf"
    /\ vision_path' = file_path
    /\ extracted_data' = NoResult
    /\ text_content' = <<>>
    /\ page_num' = 0
    /\ pc' = "Vision_open"
    /\ UNCHANGED <<info_vars, ai_vars>>
    /\ UNCHANGED <<failed_step, processed_path, written, response_error, kind, file_path, document, v, log, attempted,
                   returned_from, result>>

(***************************************************************************)
(* extract_text_from_image and preprocess_image                            *)
(***************************************************************************)
\* str.replace('.', '_processed.'): every '.' of the path is replaced
RECURSIVE ReplaceDots(_)
ReplaceDots(path) ==
    IF path = <<>> THEN <<>>
    ELSE (IF Head(path) = "." THEN <<"_processed", ".">> ELSE <<Head(path)>>)
         \o ReplaceDots(Tail(path))

\* lines 156-158: the handler of preprocess_image
ExceptPreprocess(e) ==
    /\ log' = Append(log, "Image preprocessing error: " \o e)
    /\ vision_path' = file_path
    /\ pc' = "Vision_open"

\* a raise inside the try of lines 133-154
RaiseInPreprocess(e) ==
    IF CatchAt("preprocess") = "except_preprocess"
    THEN ExceptPreprocess(e)
    ELSE pc' = "propagated" /\ log' = log /\ vision_path' = vision_path

HasExtensionIgnored(path) == TRUE

\* line 152: cv2.imwrite picks the encoder by the extension of the file name
\* and raises when the name has none (the paths here have no directory part)
HasExtension(path) == "." \in {path[i] : i \in DOMAIN path}

\* lines 115-120 with preprocess_image, lines 131-158
PreprocessImage ==
    /\ pc = "call" /\ kind = "image"
    /\ attempted' = Append(attempted, "preprocess")
    /\ \/ \* lines 135-148: cv2.imread gives None for a file it cannot decode
          \* and line 138 raises on it, or a transform raises
          /\ failed_step' \in {"read", "transform"}
          /\ \E e \in Errors : RaiseInPreprocess(e)
          /\ UNCHANGED <<processed_path, written>>
       \/ \* lines 151-152: cv2.imwrite raises
          /\ processed_path' = ReplaceDots(file_path)
          /\ failed_step' = "write"
          /\ \E e \in Errors : RaiseInPreprocess(e)
          /\ UNCHANGED written
       \/ \* lines 151-154: cv2.imwrite cannot write the file and returns
          \* False, which line 152 drops
          /\ processed_path' = ReplaceDots(file_path)
          /\ HasExtension(processed_path')
          /\ failed_step' = "write"
          /\ vision_path' = processed_path'
          /\ pc' = "Vision_open"
          /\ UNCHANGED <<log, written>>
       \/ \* lines 151-154: the image is written
          /\ processed_path' = ReplaceDots(file_path)
          /\ HasExtension(processed_path')
          /\ failed_step' = "none"
          /\ written' = written \cup {processed_path'}
          /\ vision_path' = processed_path'
          /\ pc' = "Vision_open" /\ log' = log
    /\ UNCHANGED <<info_vars, ai_vars>>
    /\ UNCHANGED <<response_error, kind, file_path, extracted_data, text_content, page_num,
                   document, v, returned_from, result>>

(***************************************************************************)
(* extract_text_with_vision_api                                            *)
(***************************************************************************)
RECURSIVE Concat(_)
Concat(ss) == IF ss = <<>> THEN <<>> ELSE Head(ss) \o Concat(Tail(ss))

RECURSIVE SumConfidence(_)
SumConfidence(ws) == IF ws = <<>> THEN 0
                     ELSE Head(ws).confidence + SumConfidence(Tail(ws))

\* the blocks, paragraphs and words the response held so far, in reading order
BlocksOf(doc) == Concat(doc.pages)
ParagraphsOf(doc) == Concat(BlocksOf(doc))
WordsOf(doc) == Concat(ParagraphsOf(doc))

\* lines 238-245: the handler of the Vision stage
ExceptVision(e) ==
    /\ log' = Append(log, "Vision API extraction error: " \o e)
    /\ result' = ErrorData(e)
    /\ returned_from' = "except_Vision"
    /\ pc' = "done"

\* a raise inside the try of lines 162-236
RaiseInVision(e) ==
    IF CatchAt("Vision") = "except_Vision"
    THEN ExceptVision(e)
    ELSE pc' = "propagated" /\ UNCHANGED <<log, result, returned_from>>

\* line 180
ServiceError(message) == "Vision API error: " \o message

\* the file the caller passed exists, and so does a file cv2.imwrite wrote
FileExists(path) == path = file_path \/ path \in written

\* lines 163-164
VisionOpen ==
    /\ pc = "Vision_open"
    /\ attempted' = Append(attempted, "Vision")
    /\ \/ /\ FileExists(vision_path)
          /\ pc' = "Vision_detect" /\ UNCHANGED <<log, result, returned_from>>
       \/ \E e \in Errors : RaiseInVision(e)
    /\ UNCHANGED <<info_vars, ai_vars>>
    /\ UNCHANGED <<failed_step, processed_path, written, response_error, kind, file_path, extracted_data, text_content, page_num,
                   vision_path, document, v>>

\* lines 185-193
VisionData(doc) ==
    [text |-> IF doc.present THEN doc.text ELSE <<>>,
     pages |-> <<>>,
     metadata |-> [method |-> "Vision API", language_hints |-> <<"ja", "en">>],
     confidence |-> ZeroConfidence]

\* lines 166-198
VisionDetect ==
    /\ pc = "Vision_detect"
    /\ \/ /\ \E e \in Errors : RaiseInVision(e)
          /\ UNCHANGED <<response_error, document, v>>
       \/ /\ \E message \in ServiceMessages :
                /\ response_error' = message
                /\ RaiseInVision(ServiceError(message))
          /\ UNCHANGED <<document, v>>
       \/ /\ document' = NoDocument
          /\ v' = [extracted_data |-> VisionData(document')]
          /\ result' = v'.extracted_data
          /\ returned_from' = "Vision"
          /\ pc' = "done"
          /\ UNCHANGED <<response_error, log>>
       \/ /\ \E t \in DocTexts : document' = [present |-> TRUE, text |-> t, pages |-> <<>>]
          /\ v' = [extracted_data |-> VisionData(document'),
                   total_confidence |-> 0, word_count |-> 0]
          /\ pc' = "Vision_pages"
          /\ UNCHANGED <<response_error, log, result, returned_from>>
    /\ UNCHANGED <<info_vars, ai_vars>>
    /\ UNCHANGED <<failed_step, processed_path, written,
                   kind, file_path, extracted_data, text_content, page_num,
                   vision_path, attempted>>

\* lines 200-205: the next page of document.pages
VisionPage ==
    /\ pc = "Vision_pages" /\ Len(document.pages) < MaxVPages
    /\ document' = [document EXCEPT !.pages = Append(@, <<>>)]
    /\ v' = [extracted_data |-> v.extracted_data,
             total_confidence |-> v.total_confidence,
             word_count |-> v.word_count,
             page_data |-> [page_number |-> Len(v.extracted_data.pages) + 1,
                            text |-> <<>>,
                            blocks |-> <<>>]]
    /\ pc' = "Vision_blocks"
    /\ UNCHANGED <<info_vars, ai_vars>>
    /\ UNCHANGED <<failed_step, processed_path, written, response_error, kind, file_path, extracted_data, text_content, page_num,
                   vision_path, log, attempted, returned_from, result>>

\* the aggregate left at its initial value, as block_confidence is
AggregateConfidenceUnsummed(total_confidence, word_count) ==
    Ratio(0, Max(word_count, 1))

\* the aggregate divided by one more than the number of words
AggregateConfidenceOffByOne(total_confidence, word_count) ==
    Ratio(total_confidence, word_count + 1)

\* line 234
AggregateConfidence(total_confidence, word_count) ==
    Ratio(total_confidence, Max(word_count, 1))

\* line 186 reads document.text, lines 200-220 the words: the service's text
\* is the text of its words, so it is empty exactly when there is no word
TextHasWords(doc) == doc.text # <<>>
WordsHaveText(doc) == doc.text # <<>> => WordsOf(doc) # <<>>

\* lines 234-236, after the last page
VisionDone ==
    /\ pc = "Vision_pages" /\ WordsHaveText(document)
    /\ v' = [v EXCEPT !.extracted_data.confidence =
                          AggregateConfidence(v.total_confidence, v.word_count)]
    /\ result' = v'.extracted_data
    /\ returned_from' = "Vision"
    /\ pc' = "done"
    /\ UNCHANGED <<info_vars, ai_vars>>
    /\ UNCHANGED <<failed_step, processed_path, written, response_error, kind, file_path, extracted_data, text_content, page_num,
                   vision_path, document, log, attempted>>

\* the page being read is the last of document.pages, its block the last of
\* that page, its paragraph the last of that block
AddBlock(doc) ==
    [doc EXCEPT !.pages[Len(doc.pages)] = Append(@, <<>>)]
AddParagraph(doc) ==
    LET p == Len(doc.pages) IN
    [doc EXCEPT !.pages[p][Len(doc.pages[p])] = Append(@, <<>>)]
AddWord(doc, w) ==
    LET p == Len(doc.pages)
        b == Len(doc.pages[p]) IN
    [doc EXCEPT !.pages[p][b][Len(doc.pages[p][b])] = Append(@, w)]

\* lines 207-210: the next block of page.blocks
VisionBlock ==
    /\ pc = "Vision_blocks" /\ Len(BlocksOf(document)) < MaxBlocks
    /\ document' = AddBlock(document)
    /\ v' = [extracted_data |-> v.extracted_data,
             total_confidence |-> v.total_confidence,
             word_count |-> v.word_count,
             page_data |-> v.page_data,
             block_text |-> <<>>,
             block_confidence |-> 0,
             paragraph_count |-> 0]
    /\ pc' = "Vision_paragraphs"
    /\ UNCHANGED <<info_vars, ai_vars>>
    /\ UNCHANGED <<failed_step, processed_path, written, response_error, kind, file_path, extracted_data, text_content, page_num,
                   vision_path, log, attempted, returned_from, result>>

\* line 231, after the last block of the page
VisionPageDone ==
    /\ pc = "Vision_blocks"
    /\ v' = [extracted_data |->
                 [v.extracted_data EXCEPT !.pages = Append(@, v.page_data)],
             total_confidence |-> v.total_confidence,
             word_count |-> v.word_count]
    /\ pc' = "Vision_pages"
    /\ UNCHANGED <<info_vars, ai_vars>>
    /\ UNCHANGED <<failed_step, processed_path, written, response_error, kind, file_path, extracted_data, text_content, page_num,
                   vision_path, document, log, attempted, returned_from, result>>

\* line 213: the next paragraph of block.paragraphs
VisionParagraph ==
    /\ pc = "Vision_paragraphs" /\ Len(ParagraphsOf(document)) < MaxParas
    /\ document' = AddParagraph(document)
    /\ v' = [extracted_data |-> v.extracted_data,
             total_confidence |-> v.total_confidence,
             word_count |-> v.word_count,
             page_data |-> v.page_data,
             block_text |-> v.block_text,
             block_confidence |-> v.block_confidence,
             paragraph_count |-> v.paragraph_count,
             paragraph_text |-> <<>>]
    /\ pc' = "Vision_words"
    /\ UNCHANGED <<info_vars, ai_vars>>
    /\ UNCHANGED <<failed_step, processed_path, written, response_error, kind, file_path, extracted_data, text_content, page_num,
                   vision_path, log, attempted, returned_from, result>>

\* line 228
BlockConfidence(block_confidence, paragraph_count) ==
    Ratio(block_confidence, Max(paragraph_count, 1))

\* lines 225-229, after the last paragraph of the block
VisionBlockDone ==
    /\ pc = "Vision_paragraphs"
    /\ v' = [extracted_data |-> v.extracted_data,
             total_confidence |-> v.total_confidence,
             word_count |-> v.word_count,
             page_data |->
                 [v.page_data EXCEPT
                     !.text = @ \o v.block_text,
                     !.blocks = Append(@,
                         [text |-> Strip(v.block_text),
                          confidence |-> BlockConfidence(v.block_confidence,
                                                         v.paragraph_count)])]]
    /\ pc' = "Vision_blocks"
    /\ UNCHANGED <<info_vars, ai_vars>>
    /\ UNCHANGED <<failed_step, processed_path, written, response_error, kind, file_path, extracted_data, text_content, page_num,
                   vision_path, document, log, attempted, returned_from, result>>

\* lines 214-220: the next word of paragraph.words
VisionWord ==
    /\ pc = "Vision_words" /\ Len(WordsOf(document)) < MaxWords
    /\ TextHasWords(document)
    /\ \E word_text \in WordTexts, confidence \in WordConfidences :
          /\ document' = AddWord(document, [text |-> word_text,
                                            confidence |-> confidence])
          /\ v' = [v EXCEPT
                      !.paragraph_text = @ \o <<word_text, " ">>,
                      !.total_confidence = @ + confidence,
                      !.word_count = @ + 1]
    /\ UNCHANGED <<info_vars, ai_vars>>
    /\ UNCHANGED <<failed_step, processed_path, written, response_error, kind, file_path, pc, extracted_data, text_content, page_num,
                   vision_path, log, attempted, returned_from, result>>

\* lines 222-223, after the last word of the paragraph
VisionParagraphDone ==
    /\ pc = "Vision_words"
    /\ v' = [extracted_data |-> v.extracted_data,
             total_confidence |-> v.total_confidence,
             word_count |-> v.word_count,
             page_data |-> v.page_data,
             block_text |-> v.block_text \o v.paragraph_text \o <<"\n">>,
             block_confidence |-> v.block_confidence,
             paragraph_count |-> v.paragraph_count + 1]
    /\ pc' = "Vision_paragraphs"
    /\ UNCHANGED <<info_vars, ai_vars>>
    /\ UNCHANGED <<failed_step, processed_path, written, response_error, kind, file_path, extracted_data, text_content, page_num,
                   vision_path, document, log, attempted, returned_from, result>>

(***************************************************************************)
(* Properties                                                              *)
(***************************************************************************)
Range(s) == {s[i] : i \in DOMAIN s}
IsPrefix(s, t) == Len(s) <= Len(t) /\ s = SubSeq(t, 1, Len(s))

Descriptions == Errors \cup {ServiceError(m) : m \in ServiceMessages}
Printed(prefix) == \E i \in DOMAIN log, e \in Descriptions : log[i] = prefix \o e
PyPDF2Failed == Printed("PyPDF2 extraction failed: ")
PdfplumberFailed == Printed("pdfplumber extraction failed: ")
PreprocessFailed == Printed("Image preprocessing error: ")
VisionFailed == Printed("Vision API extraction error: ")

\* the pages a structural stage recorded in the running call's dict
PagesBy(method) ==
    IF "pages" \in DOMAIN extracted_data
    THEN SelectSeq(extracted_data.pages, LAMBDA p : p.method = method)
    ELSE <<>>

Returned == pc = "done"
ResultKeys == {"text", "pages", "metadata", "confidence"}

\* C1: for a PDF the stages are entered in the order PyPDF2, pdfplumber,
\* Vision; pdfplumber is entered only after PyPDF2 raised or recorded no page
\* with text, Vision only after pdfplumber raised or recorded no page, and a
\* stage that returned is the last stage entered.
C1_StageOrder ==
    kind = "pdf" =>
        /\ IsPrefix(attempted, <<"PyPDF2", "pdfplumber", "Vision">>)
        /\ (pc \in {"pdfplumber_open", "pdfplumber_pages", "Vision_call_pdf"}
              \/ returned_from = "pdfplumber")
             => (PyPDF2Failed \/ PagesBy("PyPDF2") = <<>>)
        /\ pc = "Vision_call_pdf"
             => (PdfplumberFailed \/ PagesBy("pdfplumber") = <<>>)
        /\ "Vision" \in Range(attempted)
             => returned_from \notin {"PyPDF2", "pdfplumber"}
        /\ returned_from = "PyPDF2" => attempted = <<"PyPDF2">>
        /\ returned_from = "pdfplumber" => attempted = <<"PyPDF2", "pdfplumber">>

\* a PDF whose first stage found no text, whose second stage raised and which
\* the Vision stage answered
C1_Witness ==
    /\ Returned /\ kind = "pdf" /\ returned_from = "Vision"
    /\ attempted = <<"PyPDF2", "pdfplumber", "Vision">>
    /\ ~PyPDF2Failed /\ PdfplumberFailed

\* C2: when the Vision stage ends in its except clause (every stage failed),
\* the returned document has empty text, no pages, confidence 0.0 and
\* metadata.error equal to the description of the last failure printed; for
\* an error the service reported it is 'Vision API error: ' and the message.
C2_AllStagesFailed ==
    (Returned /\ returned_from = "except_Vision") =>
        /\ result.text = <<>>
        /\ result.pages = <<>>
        /\ RatEq(result.confidence, Ratio(0, 1))
        /\ "error" \in DOMAIN result.metadata
        /\ log # <<>>
        /\ log[Len(log)] = "Vision API extraction error: " \o result.metadata.error
        /\ response_error # ""
             => result.metadata.error = "Vision API error: " \o response_error

\* a PDF on which both structural stages raised and the service reported an error
C2_Witness ==
    /\ Returned /\ kind = "pdf" /\ returned_from = "except_Vision"
    /\ PyPDF2Failed /\ PdfplumberFailed
    /\ response_error \in ServiceMessages

\* C3: in a returned document text is empty iff pages is empty, and both are
\* empty iff metadata.error is set.
C3_EmptyIffFailed ==
    Returned =>
        /\ (result.text = <<>>) <=> (result.pages = <<>>)
        /\ (result.text = <<>> /\ result.pages = <<>>)
             <=> ("error" \in DOMAIN result.metadata)

\* C4: an exception of a stage is caught and the next stage is entered; no
\* exception leaves the call, which returns a dict with the four keys.
C4_NoExceptionEscapes ==
    /\ pc # "propagated"
    /\ Returned => DOMAIN result = ResultKeys
    /\ PyPDF2Failed => (pc = "pdfplumber_open" \/ "pdfplumber" \in Range(attempted))
    /\ PdfplumberFailed
         => (pc \in {"Vision_call_pdf", "Vision_open"} \/ "Vision" \in Range(attempted))
    /\ PreprocessFailed => (pc = "Vision_open" \/ "Vision" \in Range(attempted))
    /\ VisionFailed => Returned

\* a PDF on which all three stages raised
C4_Witness ==
    /\ Returned /\ kind = "pdf"
    /\ PyPDF2Failed /\ PdfplumberFailed /\ VisionFailed
    /\ response_error = ""

\* C5: a result of the PyPDF2 stage has confidence 0.9, a result of the
\* pdfplumber stage has confidence 0.85, and a document carries one of them.
C5_StructuralConfidence ==
    Returned =>
        /\ returned_from = "PyPDF2"
             => /\ RatEq(result.confidence, Ratio(90, 1))
                /\ ~RatEq(result.confidence, Ratio(85, 1))
        /\ returned_from = "pdfplumber"
             => /\ RatEq(result.confidence, Ratio(85, 1))
                /\ ~RatEq(result.confidence, Ratio(90, 1))

\* a PyPDF2 result of two pages
C5_Witness ==
    /\ Returned /\ returned_from = "PyPDF2"
    /\ Len(result.pages) = 2

\* C6 as stated: a returned document with non-empty text has confidence > 0
\* and a non-empty pages list.
C6_TextImpliesConfidence ==
    (Returned /\ result.text # <<>>) =>
        /\ RatPositive(result.confidence)
        /\ result.pages # <<>>

\* C6 amended: a structural result with non-empty text has confidence > 0 and
\* pages; a Vision result with non-empty text has confidence > 0 exactly when
\* a word of the response has confidence > 0, and pages exactly when the
\* response has pages.
C6_TextImpliesConfidenceAmended ==
    (Returned /\ result.text # <<>>) =>
        /\ returned_from \in {"PyPDF2", "pdfplumber", "Vision"}
        /\ returned_from \in {"PyPDF2", "pdfplumber"}
             => (RatPositive(result.confidence) /\ result.pages # <<>>)
        /\ returned_from = "Vision"
             => /\ RatPositive(result.confidence)
                     <=> (\E w \in Range(WordsOf(document)) : w.confidence > 0)
                /\ (result.pages # <<>>) <=> (document.pages # <<>>)

\* a Vision result with text, a page and a word of positive confidence
C6_Witness ==
    /\ Returned /\ returned_from = "Vision" /\ result.text # <<>>
    /\ RatPositive(result.confidence) /\ result.pages # <<>>

\* C7: the confidence of a Vision result is the sum of the confidences of all
\* words of the response over their number, over 1 when there is none, and
\* lies in [0, 1].
C7_AggregateConfidence ==
    (Returned /\ returned_from = "Vision") =>
        LET words == WordsOf(document)
            n == IF words = <<>> THEN 1 ELSE Len(words) IN
        /\ result.confidence.den > 0
        /\ result.confidence.num * n = SumConfidence(words) * result.confidence.den
        /\ words = <<>> => result.confidence.num = 0
        /\ 0 <= result.confidence.num
        /\ result.confidence.num <= 100 * result.confidence.den

\* a Vision result whose words lie on two pages and differ in confidence
C7_Witness ==
    /\ Returned /\ returned_from = "Vision"
    /\ Len(document.pages) = 2
    /\ Concat(document.pages[1]) # <<>> /\ Concat(document.pages[2]) # <<>>
    /\ Len(WordsOf(document)) = 2
    /\ SumConfidence(WordsOf(document)) = 100

\* C8: the confidence of a block of a Vision result is the sum of the
\* confidences of the block's words over its number of paragraphs (over 1
\* when it has none); a block whose words all have positive confidence has
\* a positive confidence.
C8_BlockConfidence ==
    (Returned /\ returned_from = "Vision") =>
        \A p \in DOMAIN result.pages : \A b \in DOMAIN result.pages[p].blocks :
            LET words == Concat(document.pages[p][b])
                paragraphs == Len(document.pages[p][b])
                confidence == result.pages[p].blocks[b].confidence IN
            /\ RatEq(confidence,
                     Ratio(SumConfidence(words),
                           IF paragraphs = 0 THEN 1 ELSE paragraphs))
            /\ (words # <<>> /\ \A w \in Range(words) : w.confidence > 0)
                 => RatPositive(confidence)

RECURSIVE JoinPages(_)
JoinPages(pages) ==
    IF pages = <<>> THEN <<>>
    ELSE <<"\n", "--- Page " \o ToString(Head(pages).page_number) \o " ---", "\n">>
         \o Head(pages).text \o JoinPages(Tail(pages))

\* C9: the text of a non-empty returned document is the concatenation, in
\* page order, of each recorded page's text behind its marker line
\* '--- Page N ---', N the page's page_number.
C9_TextIsMarkedPages ==
    (Returned /\ result.text # <<>>) =>
        result.text = JoinPages(result.pages)

\* C10: every entry of pages of a returned document has a page_number >= 1,
\* a text and a method naming the stage that produced it.
C10_PageFields ==
    Returned =>
        \A i \in DOMAIN result.pages :
            LET page == result.pages[i] IN
            /\ {"page_number", "text", "method"} \subseteq DOMAIN page
            /\ page.page_number >= 1
            /\ page.method \in {"PyPDF2", "pdfplumber", "Vision API"}

\* C11: extract_text_from_image enters preprocess_image and then the Vision
\* stage, no exception leaves preprocess_image, and whenever a step of the
\* normalization failed the Vision stage gets the original path.
C11_PreprocessFallsBack ==
    kind = "image" =>
        /\ IsPrefix(attempted, <<"preprocess", "Vision">>)
        /\ pc # "propagated"
        /\ ("preprocess" \in Range(attempted) /\ failed_step # "none")
             => vision_path = file_path

\* C12: the path preprocess_image derives differs from its input, it is the
\* only path written, it is written when no step failed, and the original
\* file is not written.
C12_DerivedPathDiffers ==
    (kind = "image" /\ "preprocess" \in Range(attempted)) =>
        /\ processed_path # <<>> => processed_path # file_path
        /\ written \subseteq {processed_path}
        /\ failed_step = "none" => written = {processed_path}
        /\ file_path \notin written

\* C12 (amended): preprocess_image writes to the derived path only and never
\* to the original file; the derived path differs from the input path exactly
\* when the input path has a "."; the derived path is written when no step
\* failed.
C12_OriginalNotWritten ==
    (kind = "image" /\ "preprocess" \in Range(attempted)) =>
        /\ processed_path # <<>> =>
               (processed_path # file_path <=> HasExtension(file_path))
        /\ written \subseteq {processed_path}
        /\ failed_step = "none" => written = {processed_path}
        /\ file_path \notin written

C12_Witness ==
    /\ kind = "image" /\ failed_step = "none"
    /\ written = {processed_path} /\ processed_path # file_path
    /\ vision_path = processed_path

\* C26: a structural stage returns only if at least one of the pages it
\* recorded has text that is not empty after stripping whitespace: a PDF
\* whose pages are all empty or whitespace for PyPDF2 and for pdfplumber is
\* returned by neither of them.
C26_StageNeedsPageText ==
    (Returned /\ returned_from \in {"PyPDF2", "pdfplumber"}) =>
        \E i \in DOMAIN result.pages :
            /\ result.pages[i].method = returned_from
            /\ Strip(result.pages[i].text) # <<>>

\* C27: the pages of a document the pdfplumber stage returned are pages of
\* pdfplumber only, with page numbers that increase strictly along the list.
C27_PdfplumberPagesOnly ==
    (Returned /\ returned_from = "pdfplumber") =>
        /\ \A i \in DOMAIN result.pages : result.pages[i].method = "pdfplumber"
        /\ \A i, j \in DOMAIN result.pages :
               i < j => result.pages[i].page_number < result.pages[j].page_number

(***************************************************************************)
(* extract_contract_information.  A string is a sequence of characters: an *)
(* ASCII character stands for itself and any other character for its code *)
(* point, "u682a" for U+682A.                                              *)
(***************************************************************************)
DigitChars == <<"0", "1", "2", "3", "4", "5", "6", "7", "8", "9">>
Digit == {DigitChars[i] : i \in DOMAIN DigitChars}
Upper ==
    {"A", "B", "C", "D", "E", "F", "G", "H", "I", "J", "K", "L", "M", "N",
    "O", "P", "Q", "R", "S", "T", "U", "V", "W", "X", "Y", "Z"}
Lower ==
    {"a", "b", "c", "d", "e", "f", "g", "h", "i", "j", "k", "l", "m", "n",
    "o", "p", "q", "r", "s", "t", "u", "v", "w", "x", "y", "z"}

\* the characters outside ASCII that occur in the patterns, the keywords and
\* the inputs, all of them word characters:
\*  株 式 会 社 有 限 合 同 資 名 一 般 団 法 人 公 益 学 校 医 療 責 任 義 務 権 利 保 証 補 償 違 約 金
\*  解 除 終 了 更 新 延 長 変 修 正 通 知 承 諾 意 協 議 支 払 料 費 用 手 数 税 消 代 報 酬 破 棄 無 効
\*  損 害 賠 秘 密 機 守 開 示 的 財 産 著 作 特 許 商 標 雑 則 準 拠 管 轄 年 月 日 円 万 億 額 甲 は 本
\*  契 を し さ せ る 負 う も の と す
Ideographs ==
    {"u682a", "u5f0f", "u4f1a", "u793e", "u6709", "u9650", "u5408", "u540c",
    "u8cc7", "u540d", "u4e00", "u822c", "u56e3", "u6cd5", "u4eba", "u516c",
    "u76ca", "u5b66", "u6821", "u533b", "u7642", "u8cac", "u4efb", "u7fa9",
    "u52d9", "u6a29", "u5229", "u4fdd", "u8a3c", "u88dc", "u511f", "u9055",
    "u7d04", "u91d1", "u89e3", "u9664", "u7d42", "u4e86", "u66f4", "u65b0",
    "u5ef6", "u9577", "u5909", "u4fee", "u6b63", "u901a", "u77e5", "u627f",
    "u8afe", "u610f", "u5354", "u8b70", "u652f", "u6255", "u6599", "u8cbb",
    "u7528", "u624b", "u6570", "u7a0e", "u6d88", "u4ee3", "u5831", "u916c",
    "u7834", "u68c4", "u7121", "u52b9", "u640d", "u5bb3", "u8ce0", "u79d8",
    "u5bc6", "u6a5f", "u5b88", "u958b", "u793a", "u7684", "u8ca1", "u7523",
    "u8457", "u4f5c", "u7279", "u8a31", "u5546", "u6a19", "u96d1", "u5247",
    "u6e96", "u62e0", "u7ba1", "u8f44", "u5e74", "u6708", "u65e5", "u5186",
    "u4e07", "u5104", "u984d", "u7532", "u306f", "u672c", "u5951", "u3092",
    "u3057", "u3055", "u305b", "u308b", "u8ca0", "u3046", "u3082", "u306e",
    "u3068", "u3059"}

\* \w and \s
Word == Digit \cup Upper \cup Lower \cup {"_"} \cup Ideographs
Space == {" ", "\n"}

(***************************************************************************)
(* re: the backtracking matcher.  A pattern is a sequence of nodes,        *)
(*   <<"set", S>>              one character of the set S                  *)
(*   <<"rep", body, min, max>> the body, a sequence of character sets,     *)
(*                             repeated as often as possible               *)
(*   <<"alt", <<p1, .., pn>>>> the first alternative the rest matches after*)
(*   <<"open", n>>, <<"close", n>>   the parentheses of group n            *)
(***************************************************************************)
Inf == -1
Set(S) == <<"set", S>>
Lit(s) == [i \in DOMAIN s |-> <<"set", {s[i]}>>]
Rep(body, min, max) == <<"rep", body, min, max>>
Alt(ps) == <<"alt", ps>>
Group(n, p) == <<<<"open", n>>>> \o p \o <<<<"close", n>>>>

NoMatch == [ok |-> FALSE]
NoGroups == <<<<0, 0>>, <<0, 0>>, <<0, 0>>>>

Minimum(S) == CHOOSE n \in S : \A m \in S : n <= m
Maximum(S) == CHOOSE n \in S : \A m \in S : m <= n

\* the characters of t from index i on are in the sets of the body, one by one
BodyAt(t, body, i) ==
    /\ i + Len(body) - 1 <= Len(t)
    /\ \A k \in DOMAIN body : t[i + k - 1] \in body[k]

\* how often the body can be repeated from index i on, max times at most
Repeats(t, body, i, max) ==
    LET room == (Len(t) - i + 1) \div Len(body)
        most == IF max # Inf /\ max < room THEN max ELSE room
    IN Minimum({most} \cup {r \in 0..(most - 1) :
                               ~BodyAt(t, body, i + r * Len(body))})

\* the match of the nodes at index i of t, or NoMatch; end is the index after it
RECURSIVE Match(_, _, _, _)
RECURSIVE MatchAlt(_, _, _, _, _)
Match(t, nodes, i, groups) ==
    IF nodes = <<>> THEN [ok |-> TRUE, end |-> i, groups |-> groups]
    ELSE LET node == Head(nodes)
             rest == Tail(nodes)
         IN CASE node[1] = "set" ->
                   IF i <= Len(t) /\ t[i] \in node[2]
                   THEN Match(t, rest, i + 1, groups) ELSE NoMatch
              [] node[1] = "open" ->
                   Match(t, rest, i, [groups EXCEPT ![node[2]] = <<i, 0>>])
              [] node[1] = "close" ->
                   Match(t, rest, i, [groups EXCEPT ![node[2]][2] = i])
              [] node[1] = "rep" ->
                   \* the largest number of repetitions the rest matches after
                   LET width == Len(node[2])
                       counts == {n \in node[3]..Repeats(t, node[2], i, node[4]) :
                                     Match(t, rest, i + n * width, groups).ok}
                   IN IF counts = {} THEN NoMatch
                      ELSE Match(t, rest, i + Maximum(counts) * width, groups)
              [] node[1] = "alt" -> MatchAlt(t, node[2], rest, i, groups)
MatchAlt(t, alts, rest, i, groups) ==
    IF alts = <<>> THEN NoMatch
    ELSE LET m == Match(t, Head(alts) \o rest, i, groups)
         IN IF m.ok THEN m ELSE MatchAlt(t, Tail(alts), rest, i, groups)

\* re.finditer: the leftmost match, then the leftmost one after it, ...;
\* at[i] is the match at index i
RECURSIVE MatchesFrom(_, _)
MatchesFrom(at, from) ==
    LET starts == {i \in from..Len(at) : at[i].ok}
    IN IF starts = {} THEN <<>>
       ELSE LET i == Minimum(starts)
            IN <<[start |-> i, end |-> at[i].end, groups |-> at[i].groups]>>
               \o MatchesFrom(at, IF at[i].end = i THEN i + 1 ELSE at[i].end)
FindIter(p, t) ==
    MatchesFrom([i \in 1..(Len(t) + 1) |-> Match(t, p, i, NoGroups)], 1)

\* match.group(0), match.group(n), match.start()
Group0(t, m) == SubSeq(t, m.start, m.end - 1)
GroupN(t, m, n) == SubSeq(t, m.groups[n][1], m.groups[n][2] - 1)
Start(m) == m.start - 1

TakeAll(s, n) == s

\* s[:n]
Take(s, n) == SubSeq(s, 1, IF Len(s) < n THEN Len(s) ELSE n)

(***************************************************************************)
(* extract_parties                                                         *)
(***************************************************************************)
\* lines 296-297: the brackets make a character class of
\*  株 式 会 社 | 有 限 合 同 資 名 一 般 団 法 人 公 益 学 校 医 療
EntityChars ==
    {"u682a", "u5f0f", "u4f1a", "u793e", "|", "u6709", "u9650", "u5408",
    "u540c", "u8cc7", "u540d", "u4e00", "u822c", "u56e3", "u6cd5", "u4eba",
    "u516c", "u76ca", "u5b66", "u6821", "u533b", "u7642"}

\* lines 295-299
company_patterns ==
    <<Group(1, <<Set(EntityChars), Rep(<<Word \cup Space>>, 1, Inf)>>),
      Group(1, <<Rep(<<Word \cup Space>>, 1, Inf), Set(EntityChars)>>),
      Group(1, <<Set(Upper), Rep(<<Lower>>, 1, Inf)>> \o Lit(<<" ">>)
               \o <<Set(Upper), Rep(<<Lower>>, 1, Inf)>> \o Lit(<<" ">>)
               \o <<Alt(<<Lit(<<"I", "n", "c", ".">>),
                          Lit(<<"C", "o", "r", "p", ".">>),
                          Lit(<<"L", "t", "d", ".">>),
                          Lit(<<"L", "L", "C">>),
                          Lit(<<"C", "o", ".">>)>>)>>)>>

\* lines 304-311: the records one pattern's matches append
RECURSIVE PartiesOfMatches(_, _)
PartiesOfMatches(t, ms) ==
    IF ms = <<>> THEN <<>>
    ELSE LET party_name == Strip(GroupN(t, Head(ms), 1))
         IN (IF party_name # <<>> /\ Len(party_name) > 2
             THEN <<[name |-> party_name, type |-> "company",
                     position |-> Start(Head(ms))]>>
             ELSE <<>>)
            \o PartiesOfMatches(t, Tail(ms))

\* lines 302-311
RECURSIVE PartiesOfPatterns(_, _)
PartiesOfPatterns(t, patterns) ==
    IF patterns = <<>> THEN <<>>
    ELSE PartiesOfMatches(t, FindIter(Head(patterns), t))
         \o PartiesOfPatterns(t, Tail(patterns))

\* lines 314-319
RECURSIVE UniqueParties(_, _)
UniqueParties(parties, seen_names) ==
    IF parties = <<>> THEN <<>>
    ELSE IF Head(parties).name \notin seen_names
         THEN <<Head(parties)>>
              \o UniqueParties(Tail(parties), seen_names \cup {Head(parties).name})
         ELSE UniqueParties(Tail(parties), seen_names)

\* lines 291-321
extract_parties(t) ==
    Take(UniqueParties(PartiesOfPatterns(t, company_patterns), {}), 10)

(***************************************************************************)
(* extract_dates                                                           *)
(***************************************************************************)
\* \d{min,max}
Digits(min, max) == <<Rep(<<Digit>>, min, max)>>

\* lines 328-333: (pattern, format_type)
date_patterns ==
    <<<<Group(1, Digits(4, 4)) \o Lit(<<"u5e74">>) \o Group(2, Digits(1, 2))
          \o Lit(<<"u6708">>) \o Group(3, Digits(1, 2)) \o Lit(<<"u65e5">>),
        "japanese">>,
      <<Group(1, Digits(4, 4)) \o Lit(<<"/">>) \o Group(2, Digits(1, 2))
          \o Lit(<<"/">>) \o Group(3, Digits(1, 2)),
        "slash">>,
      <<Group(1, Digits(4, 4)) \o Lit(<<"-">>) \o Group(2, Digits(1, 2))
          \o Lit(<<"-">>) \o Group(3, Digits(1, 2)),
        "hyphen">>,
      <<Group(1, Digits(1, 2)) \o Lit(<<"/">>) \o Group(2, Digits(1, 2))
          \o Lit(<<"/">>) \o Group(3, Digits(4, 4)),
        "us_format">>>>

\* int() of a string of digits
DigitValue(c) == CHOOSE n \in 0..9 : DigitChars[n + 1] = c
RECURSIVE int(_)
int(s) == IF s = <<>> THEN 0
          ELSE 10 * int(SubSeq(s, 1, Len(s) - 1)) + DigitValue(s[Len(s)])

IsDateUnchecked(year, month, day) == TRUE

\* datetime(year, month, day) raises ValueError unless this holds
IsLeap(year) == year % 4 = 0 /\ (year % 100 # 0 \/ year % 400 = 0)
DaysInMonth(year, month) ==
    IF month = 2 THEN (IF IsLeap(year) THEN 29 ELSE 28)
    ELSE IF month \in {4, 6, 9, 11} THEN 30 ELSE 31
IsDate(year, month, day) ==
    /\ year \in 1..9999
    /\ month \in 1..12
    /\ day \in 1..DaysInMonth(year, month)

\* the decimal digits of n, padded with zeros to the given width
RECURSIVE Padded(_, _)
Padded(n, width) ==
    IF width = 0 THEN <<>>
    ELSE Padded(n \div 10, width - 1) \o <<DigitChars[(n % 10) + 1]>>

\* datetime(year, month, day).isoformat()
Isoformat(year, month, day) ==
    Padded(year, 4) \o <<"-">> \o Padded(month, 2) \o <<"-">> \o Padded(day, 2)
    \o <<"T", "0", "0", ":", "0", "0", ":", "0", "0">>

\* lines 341-355: the records one pattern's matches append
RECURSIVE DatesOfMatches(_, _, _)
DatesOfMatches(t, format_type, ms) ==
    IF ms = <<>> THEN <<>>
    ELSE LET match == Head(ms)
             year == int(GroupN(t, match, IF format_type = "us_format" THEN 3 ELSE 1))
             month == int(GroupN(t, match, IF format_type = "us_format" THEN 1 ELSE 2))
             day == int(GroupN(t, match, IF format_type = "us_format" THEN 2 ELSE 3))
         IN (IF IsDate(year, month, day)
             THEN <<[date |-> Isoformat(year, month, day),
                     original_text |-> Group0(t, match),
                     position |-> Start(match)]>>
             ELSE <<>>)
            \o DatesOfMatches(t, format_type, Tail(ms))

\* lines 337-355
RECURSIVE DatesOfPatterns(_, _)
DatesOfPatterns(t, patterns) ==
    IF patterns = <<>> THEN <<>>
    ELSE DatesOfMatches(t, Head(patterns)[2], FindIter(Head(patterns)[1], t))
         \o DatesOfPatterns(t, Tail(patterns))

Unsorted(xs) == xs

\* sorted(xs, key=lambda x: x['position']): the sort is stable
RECURSIVE Sorted(_)
Sorted(xs) ==
    IF xs = <<>> THEN <<>>
    ELSE LET rest == Sorted(SubSeq(xs, 1, Len(xs) - 1))
             last == xs[Len(xs)]
             k == Cardinality({i \in DOMAIN rest : rest[i].position <= last.position})
         IN SubSeq(rest, 1, k) \o <<last>> \o SubSeq(rest, k + 1, Len(rest))

\* None
None == [none |-> TRUE]
\* {}
EmptyDict == <<>>

\* lines 358-365
extract_dates(t) ==
    LET all_dates == DatesOfPatterns(t, date_patterns)
        sorted_dates == Sorted(all_dates)
    IN IF all_dates # <<>>
       THEN [contract_date |-> sorted_dates[1],
             effective_date |-> IF Len(sorted_dates) > 1 THEN sorted_dates[2] ELSE None,
             expiration_date |-> IF Len(sorted_dates) > 2
                                 THEN sorted_dates[Len(sorted_dates)] ELSE None,
             all_dates |-> sorted_dates]
       ELSE EmptyDict

(***************************************************************************)
(* extract_amounts                                                         *)
(***************************************************************************)
\* \d{1,3}(?:,\d{3})*(?:\.\d{2})?
Number ==
    <<Rep(<<Digit>>, 1, 3),
      Rep(<<{","}, Digit, Digit, Digit>>, 0, Inf),
      Rep(<<{"."}, Digit, Digit>>, 0, 1)>>

\* lines 372-377; the characters are 円 万 億 and the yen sign U+00A5
amount_patterns ==
    <<Group(1, Number) \o <<Alt(<<Lit(<<"u5186">>), Lit(<<"u4e07", "u5186">>),
                                  Lit(<<"u5104", "u5186">>)>>)>>,
      Lit(<<"u00a5">>) \o Group(1, Number),
      Lit(<<"$">>) \o Group(1, Number),
      Group(1, Number) \o <<Rep(<<{" "}>>, 0, Inf)>>
          \o <<Alt(<<Lit(<<"U", "S", "D">>), Lit(<<"J", "P", "Y">>),
                     Lit(<<"E", "U", "R">>)>>)>>>>

RECURSIVE LeadingDigits(_)
LeadingDigits(s) ==
    IF s = <<>> \/ Head(s) \notin Digit THEN <<>>
    ELSE <<Head(s)>> \o LeadingDigits(Tail(s))

\* re.sub(r'[^\d.]', '', s)
RECURSIVE DigitsAndPoints(_)
DigitsAndPoints(s) ==
    IF s = <<>> THEN <<>>
    ELSE (IF Head(s) \in Digit \cup {"."} THEN <<Head(s)>> ELSE <<>>)
         \o DigitsAndPoints(Tail(s))

\* float(s) of a string of digits and points: ValueError unless IsFloat(s),
\* else the number float(s).num / float(s).den
Points(s) == {i \in DOMAIN s : s[i] = "."}
IsFloat(s) == Cardinality(Points(s)) <= 1 /\ Cardinality(Points(s)) < Len(s)
RECURSIVE Power10(_)
Power10(n) == IF n = 0 THEN 1 ELSE 10 * Power10(n - 1)
float(s) ==
    IF Points(s) = {} THEN Ratio(int(s), 1)
    ELSE LET point == CHOOSE i \in Points(s) : TRUE
         IN Ratio(int(SubSeq(s, 1, point - 1) \o SubSeq(s, point + 1, Len(s))),
                  Power10(Len(s) - point))

\* k in s
Contains(s, k) ==
    \E i \in 1..(Len(s) - Len(k) + 1) : SubSeq(s, i, i + Len(k) - 1) = k

\* lines 398-407; the characters are 円, the yen sign and the euro sign
detect_currency(s) ==
    IF Contains(s, <<"u5186">>) \/ Contains(s, <<"u00a5">>)
       \/ Contains(s, <<"J", "P", "Y">>)
    THEN "JPY"
    ELSE IF Contains(s, <<"$">>) \/ Contains(s, <<"U", "S", "D">>) THEN "USD"
    ELSE IF Contains(s, <<"E", "U", "R">>) \/ Contains(s, <<"u20ac">>) THEN "EUR"
    ELSE "UNKNOWN"

\* lines 381-394: the records one pattern's matches append
RECURSIVE AmountsOfMatches(_, _)
AmountsOfMatches(t, ms) ==
    IF ms = <<>> THEN <<>>
    ELSE LET match == Head(ms)
             amount_text == Group0(t, match)
             amount_value == DigitsAndPoints(GroupN(t, match, 1))
         IN (IF IsFloat(amount_value)
             THEN <<[value |-> float(amount_value),
                     original_text |-> amount_text,
                     currency |-> detect_currency(amount_text),
                     position |-> Start(match)]>>
             ELSE <<>>)
            \o AmountsOfMatches(t, Tail(ms))

\* lines 379-394
RECURSIVE AmountsOfPatterns(_, _)
AmountsOfPatterns(t, patterns) ==
    IF patterns = <<>> THEN <<>>
    ELSE AmountsOfMatches(t, FindIter(Head(patterns), t))
         \o AmountsOfPatterns(t, Tail(patterns))

\* lines 367-396
extract_amounts(t) == Take(AmountsOfPatterns(t, amount_patterns), 5)

(***************************************************************************)
(* extract_key_terms                                                       *)
(***************************************************************************)
\* re.split(p, t) for a pattern without groups
RECURSIVE SplitAt(_, _, _)
SplitAt(t, ms, from) ==
    IF ms = <<>> THEN <<SubSeq(t, from, Len(t))>>
    ELSE <<SubSeq(t, from, Head(ms).start - 1)>> \o SplitAt(t, Tail(ms), Head(ms).end)
ReSplit(p, t) == SplitAt(t, FindIter(p, t), 1)

\* lines 414-418
important_keywords ==
    <<<<"u8cac", "u4efb">>,  \* 責任
      <<"u7fa9", "u52d9">>,  \* 義務
      <<"u6a29", "u5229">>,  \* 権利
      <<"u4fdd", "u8a3c">>,  \* 保証
      <<"u88dc", "u511f">>,  \* 補償
      <<"u9055", "u7d04", "u91d1">>,  \* 違約金
      <<"u89e3", "u9664">>,  \* 解除
      <<"u7d42", "u4e86">>,  \* 終了
      <<"u66f4", "u65b0">>,  \* 更新
      <<"u5ef6", "u9577">>,  \* 延長
      <<"u5909", "u66f4">>,  \* 変更
      <<"u4fee", "u6b63">>,  \* 修正
      <<"u901a", "u77e5">>,  \* 通知
      <<"u627f", "u8afe">>,  \* 承諾
      <<"u5408", "u610f">>,  \* 合意
      <<"u5354", "u8b70">>,  \* 協議
      <<"u652f", "u6255">>,  \* 支払
      <<"u6599", "u91d1">>,  \* 料金
      <<"u8cbb", "u7528">>,  \* 費用
      <<"u624b", "u6570", "u6599">>,  \* 手数料
      <<"u7a0e", "u91d1">>,  \* 税金
      <<"u6d88", "u8cbb", "u7a0e">>>>  \* 消費税

\* line 428
HighKeywords ==
    {<<"u8cac", "u4efb">>,  \* 責任
     <<"u7fa9", "u52d9">>,  \* 義務
     <<"u9055", "u7d04", "u91d1">>,  \* 違約金
     <<"u89e3", "u9664">>}  \* 解除

\* line 422: the characters are the two full stops U+3002 and U+FF0E
SentenceEnd == <<Set({"u3002", "uff0e", "\n"})>>

\* the loop of lines 423-429 with a break after its first record
RECURSIVE TermOfFirstSentence(_, _)
TermOfFirstSentence(keyword, sentences) ==
    IF sentences = <<>> THEN <<>>
    ELSE LET sentence == Head(sentences)
         IN IF Contains(sentence, keyword) /\ Len(Strip(sentence)) > 10
            THEN <<[keyword |-> keyword,
                    text |-> Strip(sentence),
                    importance |-> IF keyword \in HighKeywords
                                   THEN "high" ELSE "medium"]>>
            ELSE TermOfFirstSentence(keyword, Tail(sentences))

\* lines 423-429: the records one keyword appends
RECURSIVE TermsOfSentences(_, _)
TermsOfSentences(keyword, sentences) ==
    IF sentences = <<>> THEN <<>>
    ELSE LET sentence == Head(sentences)
         IN (IF Contains(sentence, keyword) /\ Len(Strip(sentence)) > 10
             THEN <<[keyword |-> keyword,
                     text |-> Strip(sentence),
                     importance |-> IF keyword \in HighKeywords
                                    THEN "high" ELSE "medium"]>>
             ELSE <<>>)
            \o TermsOfSentences(keyword, Tail(sentences))

\* lines 420-429
RECURSIVE TermsOfKeywords(_, _)
TermsOfKeywords(sentences, keywords) ==
    IF keywords = <<>> THEN <<>>
    ELSE TermsOfSentences(Head(keywords), sentences)
         \o TermsOfKeywords(sentences, Tail(keywords))

\* lines 409-431; line 422 splits the text anew for every keyword, into the
\* same sentences
extract_key_terms(t) ==
    Take(TermsOfKeywords(ReSplit(SentenceEnd, t), important_keywords), 20)

(***************************************************************************)
(* classify_clauses                                                        *)
(***************************************************************************)
\* lines 437-444
clause_types ==
    <<<<"payment",
        <<<<"u652f", "u6255">>,  \* 支払
          <<"u6599", "u91d1">>,  \* 料金
          <<"u8cbb", "u7528">>,  \* 費用
          <<"u4ee3", "u91d1">>,  \* 代金
          <<"u5831", "u916c">>>>>>,  \* 報酬
      <<"termination",
        <<<<"u89e3", "u9664">>,  \* 解除
          <<"u7d42", "u4e86">>,  \* 終了
          <<"u7834", "u68c4">>,  \* 破棄
          <<"u7121", "u52b9">>>>>>,  \* 無効
      <<"liability",
        <<<<"u8cac", "u4efb">>,  \* 責任
          <<"u640d", "u5bb3">>,  \* 損害
          <<"u88dc", "u511f">>,  \* 補償
          <<"u8ce0", "u511f">>>>>>,  \* 賠償
      <<"confidentiality",
        <<<<"u79d8", "u5bc6">>,  \* 秘密
          <<"u6a5f", "u5bc6">>,  \* 機密
          <<"u5b88", "u79d8">>,  \* 守秘
          <<"u958b", "u793a">>>>>>,  \* 開示
      <<"intellectual_property",
        <<<<"u77e5", "u7684", "u8ca1", "u7523">>,  \* 知的財産
          <<"u8457", "u4f5c", "u6a29">>,  \* 著作権
          <<"u7279", "u8a31">>,  \* 特許
          <<"u5546", "u6a19">>>>>>,  \* 商標
      <<"general",
        <<<<"u4e00", "u822c">>,  \* 一般
          <<"u96d1", "u5247">>,  \* 雑則
          <<"u6e96", "u62e0", "u6cd5">>,  \* 準拠法
          <<"u7ba1", "u8f44">>>>>>>>  \* 管轄

\* line 450: \n\s*\n
ParagraphEnd == <<Set({"\n"}), Rep(<<Space>>, 0, Inf), Set({"\n"})>>

\* the loop of lines 451-458 without its break: every paragraph that has the
\* keyword and is long enough appends a record
RECURSIVE ClauseOfEveryParagraph(_, _, _)
ClauseOfEveryParagraph(clause_type, keyword, paragraphs) ==
    IF paragraphs = <<>> THEN <<>>
    ELSE LET paragraph == Head(paragraphs)
         IN (IF Contains(paragraph, keyword) /\ Len(Strip(paragraph)) > 20
             THEN <<[type |-> clause_type,
                     content |-> Take(Strip(paragraph), 500),
                     keyword |-> keyword]>>
             ELSE <<>>)
            \o ClauseOfEveryParagraph(clause_type, keyword, Tail(paragraphs))

\* lines 451-458: the first paragraph that has the keyword and is long enough
\* appends a record and ends the loop over the paragraphs
RECURSIVE ClauseOfParagraphs(_, _, _)
ClauseOfParagraphs(clause_type, keyword, paragraphs) ==
    IF paragraphs = <<>> THEN <<>>
    ELSE LET paragraph == Head(paragraphs)
         IN IF Contains(paragraph, keyword) /\ Len(Strip(paragraph)) > 20
            THEN <<[type |-> clause_type,
                    content |-> Take(Strip(paragraph), 500),
                    keyword |-> keyword]>>
            ELSE ClauseOfParagraphs(clause_type, keyword, Tail(paragraphs))

\* lines 447-458: the loop over the keywords of one type runs to its end
RECURSIVE ClausesOfKeywords(_, _, _, _)
ClausesOfKeywords(t, paragraphs, clause_type, keywords) ==
    IF keywords = <<>> THEN <<>>
    ELSE (IF Contains(t, Head(keywords))
          THEN ClauseOfParagraphs(clause_type, Head(keywords), paragraphs)
          ELSE <<>>)
         \o ClausesOfKeywords(t, paragraphs, clause_type, Tail(keywords))

\* lines 446-458
RECURSIVE ClausesOfTypes(_, _, _)
ClausesOfTypes(t, paragraphs, types) ==
    IF types = <<>> THEN <<>>
    ELSE ClausesOfKeywords(t, paragraphs, Head(types)[1], Head(types)[2])
         \o ClausesOfTypes(t, paragraphs, Tail(types))

\* lines 433-460; line 450 splits the text anew for every keyword found, into
\* the same paragraphs
classify_clauses(t) == ClausesOfTypes(t, ReSplit(ParagraphEnd, t), clause_types)

(***************************************************************************)
(* The texts extract_contract_information is called on                     *)
(***************************************************************************)
\* the pieces a text is put together from
Fragments ==
    {\* AB株CD。
     <<"A", "B", "u682a", "C", "D", "u3002">>,
     \* Ab Cd Inc.
     <<"A", "b", " ", "C", "d", " ", "I", "n", "c", ".">>,
     \* 2024年1月15日
     <<"2", "0", "2", "4", "u5e74", "1", "u6708", "1", "5", "u65e5">>,
     \* 2024年6月30日
     <<"2", "0", "2", "4", "u5e74", "6", "u6708", "3", "0", "u65e5">>,
     \* 2024/13/1
     <<"2", "0", "2", "4", "/", "1", "3", "/", "1">>,
     \* 3/5/2024 2024-2-29
     <<"3", "/", "5", "/", "2", "0", "2", "4", " ", "2", "0", "2", "4", "-",
     "2", "-", "2", "9">>,
     \* 月額800,000円
     <<"u6708", "u984d", "8", "0", "0", ",", "0", "0", "0", "u5186">>,
     \* $100 1500円
     <<"$", "1", "0", "0", " ", "1", "5", "0", "0", "u5186">>,
     \* 甲は本契約を解除し終了させる責任を負うものとする。
     <<"u7532", "u306f", "u672c", "u5951", "u7d04", "u3092", "u89e3",
     "u9664", "u3057", "u7d42", "u4e86", "u3055", "u305b", "u308b", "u8cac",
     "u4efb", "u3092", "u8ca0", "u3046", "u3082", "u306e", "u3068", "u3059",
     "u308b", "u3002">>,
     \* \n\n
     <<"\n", "\n">>}

\* a text with more than 10 names, more than 5 amounts and more than 20 key
\* terms:
\*  AB株CD。AC株CE。AD株CF。AE株CG。AF株CH。AG株CI。AB株CD。
\*  $1 ¥2 3 USD 1円2円3円4円5円。2023-2-29 2024-2-29。
\* and then the keywords of lines 414-418 in one sentence
LongText ==
    <<"A", "B", "u682a", "C", "D", "u3002", "A", "C", "u682a", "C", "E",
    "u3002", "A", "D", "u682a", "C", "F", "u3002", "A", "E", "u682a", "C",
    "G", "u3002", "A", "F", "u682a", "C", "H", "u3002", "A", "G", "u682a",
    "C", "I", "u3002", "A", "B", "u682a", "C", "D", "u3002", "$", "1", " ",
    "u00a5", "2", " ", "3", " ", "U", "S", "D", " ", "1", "u5186", "2",
    "u5186", "3", "u5186", "4", "u5186", "5", "u5186", "u3002", "2", "0",
    "2", "3", "-", "2", "-", "2", "9", " ", "2", "0", "2", "4", "-", "2",
    "-", "2", "9", "u3002">>
    \o Concat(important_keywords)

\* the number of characters that follow the keyword in the long paragraph
PaddingLength == 520

\* a text of four paragraphs: one with 支払 that is too short, one with 解除,
\* 終了, 責任 and 支払, one of more than 500 characters that starts with a
\* space and 秘密, and one that repeats the sentence of the second:
\*  支払は本日
\*
\*  甲は本契約を解除し終了させる責任を負うものとする。支払は本日
\*
\*   秘密-----...
\*
\*  甲は本契約を解除し終了させる責任を負うものとする。
ClauseText ==
    Concat(<<
        <<"u652f", "u6255", "u306f", "u672c", "u65e5">>,
        <<"\n", "\n">>,
        <<"u7532", "u306f", "u672c", "u5951", "u7d04", "u3092", "u89e3",
        "u9664", "u3057", "u7d42", "u4e86", "u3055", "u305b", "u308b",
        "u8cac", "u4efb", "u3092", "u8ca0", "u3046", "u3082", "u306e",
        "u3068", "u3059", "u308b", "u3002", "u652f", "u6255", "u306f",
        "u672c", "u65e5">>,
        <<"\n", " ", "\n">>,
        <<" ", "u79d8", "u5bc6">>,
        [i \in 1..PaddingLength |-> "-"],
        <<"\n", "\n">>,
        <<"u7532", "u306f", "u672c", "u5951", "u7d04", "u3092", "u89e3",
        "u9664", "u3057", "u7d42", "u4e86", "u3055", "u305b", "u308b",
        "u8cac", "u4efb", "u3092", "u8ca0", "u3046", "u3082", "u306e",
        "u3068", "u3059", "u308b", "u3002">>>>)

\* the number of fragments in a text
MaxPieces == 2

Texts ==
    {Concat(fs) : fs \in UNION {[1..n -> Fragments] : n \in 0..MaxPieces}}
    \cup {LongText, ClauseText}

(***************************************************************************)
(* extract_contract_information                                            *)
(***************************************************************************)
InfoInit ==
    /\ OcrIdle
    /\ RateIdle
    /\ ChatIdle
    /\ text \in Texts
    /\ info_pc = "call"
    /\ extracted_info = NoInfo

\* a loop body whose ValueError no handler catches
LoopCatchesNothing(pass) == FALSE

\* lines 354-355 and 393-394: except ValueError: continue, in the body of the
\* loop over the matches
LoopCatchesValueError(pass) == pass \in {"dates", "amounts"}

\* line 347: datetime() raises ValueError for some match of a date pattern
DateRaises(t) ==
    \E p \in DOMAIN date_patterns :
        \E match \in Range(FindIter(date_patterns[p][1], t)) :
            LET us == date_patterns[p][2] = "us_format"
            IN ~IsDate(int(GroupN(t, match, IF us THEN 3 ELSE 1)),
                       int(GroupN(t, match, IF us THEN 1 ELSE 2)),
                       int(GroupN(t, match, IF us THEN 2 ELSE 3)))

\* line 386: float() raises ValueError for some match of an amount pattern
AmountRaises(t) ==
    \E p \in DOMAIN amount_patterns :
        \E match \in Range(FindIter(amount_patterns[p], t)) :
            ~IsFloat(DigitsAndPoints(GroupN(t, match, 1)))

\* lines 280-289: the record of the handler of extract_contract_information
ErrorInfo(e) ==
    [parties |-> <<>>, dates |-> EmptyDict, amounts |-> <<>>,
     key_terms |-> <<>>, clauses |-> <<>>, error |-> e]

\* lines 250-256
InitialInfo ==
    [parties |-> <<>>, dates |-> EmptyDict, amounts |-> <<>>,
     key_terms |-> <<>>, clauses |-> <<>>]

\* an assignment that puts the result of a pass into a new record
StoreInNewRecord(info, field, value) == [InitialInfo EXCEPT ![field] = value]

\* lines 260, 264, 268, 272, 276: extracted_info[field] = value
StoreResult(info, field, value) == [info EXCEPT ![field] = value]

\* lines 250-256
CallInfo ==
    /\ info_pc = "call"
    /\ extracted_info' = InitialInfo
    /\ info_pc' = "parties"
    /\ UNCHANGED text
    /\ UNCHANGED <<ocr_vars, ai_vars>>

\* lines 259-260
ExtractParties ==
    /\ info_pc = "parties"
    /\ extracted_info' =
           StoreResult(extracted_info, "parties", extract_parties(text))
    /\ info_pc' = "dates"
    /\ UNCHANGED text
    /\ UNCHANGED <<ocr_vars, ai_vars>>

\* lines 263-264, and 280-289 for a ValueError that leaves extract_dates
ExtractDates ==
    /\ info_pc = "dates"
    /\ IF ~LoopCatchesValueError("dates") /\ DateRaises(text)
       THEN /\ extracted_info' = ErrorInfo("ValueError")
            /\ info_pc' = "done"
       ELSE /\ extracted_info' =
                   StoreResult(extracted_info, "dates", extract_dates(text))
            /\ info_pc' = "amounts"
    /\ UNCHANGED text
    /\ UNCHANGED <<ocr_vars, ai_vars>>

\* lines 267-268, and 280-289 for a ValueError that leaves extract_amounts
ExtractAmounts ==
    /\ info_pc = "amounts"
    /\ IF ~LoopCatchesValueError("amounts") /\ AmountRaises(text)
       THEN /\ extracted_info' = ErrorInfo("ValueError")
            /\ info_pc' = "done"
       ELSE /\ extracted_info' =
                   StoreResult(extracted_info, "amounts", extract_amounts(text))
            /\ info_pc' = "key_terms"
    /\ UNCHANGED text
    /\ UNCHANGED <<ocr_vars, ai_vars>>

\* lines 271-272
ExtractKeyTerms ==
    /\ info_pc = "key_terms"
    /\ extracted_info' =
           StoreResult(extracted_info, "key_terms", extract_key_terms(text))
    /\ info_pc' = "clauses"
    /\ UNCHANGED text
    /\ UNCHANGED <<ocr_vars, ai_vars>>

\* lines 275-276
ClassifyClauses ==
    /\ info_pc = "clauses"
    /\ extracted_info' =
           StoreResult(extracted_info, "clauses", classify_clauses(text))
    /\ info_pc' = "return"
    /\ UNCHANGED text
    /\ UNCHANGED <<ocr_vars, ai_vars>>

\* line 278
ReturnInfo ==
    /\ info_pc = "return"
    /\ info_pc' = "done"
    /\ UNCHANGED <<text, extracted_info>>
    /\ UNCHANGED <<ocr_vars, ai_vars>>

(***************************************************************************)
(* The record extract_contract_information returns                         *)
(***************************************************************************)
InfoReturned == info_pc = "done"
Parties == extracted_info.parties
Dates == extracted_info.dates
Amounts == extracted_info.amounts
KeyTerms == extracted_info.key_terms
Clauses == extracted_info.clauses

\* the records of the matches of all patterns, before lines 313-321, 396, 431
\* cut the lists
MatchedParties == PartiesOfPatterns(text, company_patterns)
MatchedAmounts == AmountsOfPatterns(text, amount_patterns)
MatchedTerms == TermsOfKeywords(ReSplit(SentenceEnd, text), important_keywords)

\* the positions along a list never decrease
InTextOrder(xs) ==
    \A i, j \in DOMAIN xs : i < j => xs[i].position <= xs[j].position

\* C13: the returned record has at most 10 parties, at most 5 amounts and at
\* most 20 key terms, and no two of its parties have the same name.
C13_Caps ==
    InfoReturned =>
        /\ Len(Parties) <= 10
        /\ Len(Amounts) <= 5
        /\ Len(KeyTerms) <= 20
        /\ \A i, j \in DOMAIN Parties : Parties[i].name = Parties[j].name => i = j

\* a text with more matches than each list holds and a name matched twice
C13_Witness ==
    /\ InfoReturned
    /\ Len(Parties) = 10 /\ Len(Amounts) = 5 /\ Len(KeyTerms) = 20
    /\ Cardinality({MatchedParties[i].name : i \in DOMAIN MatchedParties}) > 10
    /\ Cardinality({MatchedParties[i].name : i \in DOMAIN MatchedParties})
          < Len(MatchedParties)
    /\ Len(MatchedAmounts) > 5
    /\ Len(MatchedTerms) > 20

\* C14: the positions of the returned parties never decrease, each returned
\* party is the occurrence of its name with the smallest position, and a
\* matched name that is not returned occurs no earlier than the returned ones.
C14_PartiesInTextOrder ==
    InfoReturned =>
        /\ InTextOrder(Parties)
        /\ \A i \in DOMAIN Parties, k \in DOMAIN MatchedParties :
               MatchedParties[k].name = Parties[i].name
                   => Parties[i].position <= MatchedParties[k].position
        /\ \A k \in DOMAIN MatchedParties :
               (\A i \in DOMAIN Parties : Parties[i].name # MatchedParties[k].name)
                   => \A i \in DOMAIN Parties :
                          Parties[i].position <= MatchedParties[k].position

\* C15: the positions of the returned amounts never decrease, and a matched
\* amount that is not returned occurs no earlier than the returned ones.
C15_AmountsInTextOrder ==
    InfoReturned =>
        /\ InTextOrder(Amounts)
        /\ \A k \in DOMAIN MatchedAmounts :
               (\A i \in DOMAIN Amounts : Amounts[i] # MatchedAmounts[k])
                   => \A i \in DOMAIN Amounts :
                          Amounts[i].position <= MatchedAmounts[k].position

\* the record of every match that is a date, in the order of the patterns
ValidDates == DatesOfPatterns(text, date_patterns)

\* C16: all_dates holds the valid date matches of the four patterns, each
\* once, by ascending position; contract_date is the first of them,
\* effective_date the second when there are two, and expiration_date the last
\* when there are more than two and None otherwise; without a valid date the
\* dict is empty.
C16_DatesSorted ==
    InfoReturned =>
        IF ValidDates = <<>> THEN Dates = EmptyDict
        ELSE /\ Range(Dates.all_dates) = Range(ValidDates)
             /\ Len(Dates.all_dates) = Len(ValidDates)
             /\ \A i, j \in DOMAIN Dates.all_dates :
                    i < j => Dates.all_dates[i].position < Dates.all_dates[j].position
             /\ Dates.contract_date = Dates.all_dates[1]
             /\ Dates.effective_date =
                    IF Len(ValidDates) >= 2 THEN Dates.all_dates[2] ELSE None
             /\ Dates.expiration_date =
                    IF Len(ValidDates) > 2
                    THEN Dates.all_dates[Len(ValidDates)] ELSE None

\* more than two dates, matched in another order than they stand in the text
C16_Witness ==
    /\ InfoReturned
    /\ Len(ValidDates) > 2
    /\ ~InTextOrder(ValidDates)
    /\ Dates.expiration_date = Dates.all_dates[Len(ValidDates)]

\* YYYY-MM-DD
IsCalendarDateString(s) ==
    /\ Len(s) = 10
    /\ \A i \in {1, 2, 3, 4, 6, 7, 9, 10} : s[i] \in Digit
    /\ s[5] = "-" /\ s[8] = "-"

\* 2024年1月15日 and then 2024年6月30日
TwoDatesText ==
    <<"2", "0", "2", "4", "u5e74", "1", "u6708", "1", "5", "u65e5">>
    \o <<"2", "0", "2", "4", "u5e74", "6", "u6708", "3", "0", "u65e5">>

\* C17: the date field of every date record has the form YYYY-MM-DD, and for
\* the text of 2024年1月15日 and then 2024年6月30日 contract_date.date is
\* 2024-01-15, expiration_date is None and all_dates has two records by
\* ascending position.
C17_CalendarDateStrings ==
    InfoReturned =>
        /\ Dates # EmptyDict =>
               \A i \in DOMAIN Dates.all_dates :
                   IsCalendarDateString(Dates.all_dates[i].date)
        /\ text = TwoDatesText =>
               /\ Dates.contract_date.date = <<"2", "0", "2", "4", "-", "0", "1", "-", "1", "5">>
               /\ Dates.expiration_date = None
               /\ Len(Dates.all_dates) = 2
               /\ InTextOrder(Dates.all_dates)

\* the matches of the four patterns, each with the pattern's format_type
DateMatches ==
    UNION {{<<date_patterns[p][2], m>> :
               m \in Range(FindIter(date_patterns[p][1], text))} :
           p \in DOMAIN date_patterns}
YearOf(fm) == int(GroupN(text, fm[2], IF fm[1] = "us_format" THEN 3 ELSE 1))
MonthOf(fm) == int(GroupN(text, fm[2], IF fm[1] = "us_format" THEN 1 ELSE 2))
DayOf(fm) == int(GroupN(text, fm[2], IF fm[1] = "us_format" THEN 2 ELSE 3))

\* the days of the months of a year of the Gregorian calendar
MonthLengths(year) ==
    <<31, IF year % 4 = 0 /\ (year % 100 # 0 \/ year % 400 = 0) THEN 29 ELSE 28,
      31, 30, 31, 30, 31, 31, 30, 31, 30, 31>>
OnCalendar(fm) ==
    /\ YearOf(fm) \in 1..9999
    /\ MonthOf(fm) \in 1..12
    /\ DayOf(fm) \in 1..MonthLengths(YearOf(fm))[MonthOf(fm)]

\* the records of the dict: all_dates and the three named dates
DateRecords ==
    IF Dates = EmptyDict THEN {}
    ELSE (Range(Dates.all_dates)
          \cup {Dates.contract_date, Dates.effective_date, Dates.expiration_date})
         \ {None}
RecordOf(fm, r) ==
    r.position = Start(fm[2]) /\ r.original_text = Group0(text, fm[2])

\* C18: a match of a date pattern whose year, month and day are no date of
\* the calendar has no record in all_dates, contract_date, effective_date or
\* expiration_date; the pass ends without an error; every match that is a
\* date has its record in all_dates, and all_dates is in the order of the
\* text.
C18_InvalidDatesDropped ==
    InfoReturned =>
        /\ DOMAIN extracted_info =
               {"parties", "dates", "amounts", "key_terms", "clauses"}
        /\ \A fm \in DateMatches :
               IF OnCalendar(fm)
               THEN \E i \in DOMAIN Dates.all_dates : RecordOf(fm, Dates.all_dates[i])
               ELSE \A r \in DateRecords : ~RecordOf(fm, r)
        /\ Dates # EmptyDict => InTextOrder(Dates.all_dates)

\* a text with a match that is no date and a match that is one
C18_Witness ==
    /\ InfoReturned
    /\ \E fm \in DateMatches : ~OnCalendar(fm)
    /\ \E fm \in DateMatches : OnCalendar(fm)
    /\ Dates # EmptyDict

\* the text has digits, all of them in one group of digits, commas and
\* points from index i to index j that the pattern of a number matches as a
\* whole, and the character after the group is 円
SingleYenAmount(i, j) ==
    /\ i <= j /\ j < Len(text)
    /\ text[i] \in Digit /\ text[j] \in Digit
    /\ \A k \in DOMAIN text : text[k] \in Digit => k \in i..j
    /\ \A k \in i..j : text[k] \in Digit \cup {",", "."}
    /\ LET m == Match(SubSeq(text, i, j), Number, 1, NoGroups)
       IN m.ok /\ m.end = j - i + 2
    /\ text[j + 1] = "u5186"

\* the number the digits of s write
RECURSIVE DigitsValue(_)
DigitsValue(s) ==
    IF s = <<>> THEN 0
    ELSE IF s[Len(s)] \in Digit
         THEN 10 * DigitsValue(SubSeq(s, 1, Len(s) - 1)) + DigitValue(s[Len(s)])
         ELSE DigitsValue(SubSeq(s, 1, Len(s) - 1))
\* the number a group of digits, commas and at most one point writes
GroupValue(s) ==
    IF \E k \in DOMAIN s : s[k] = "."
    THEN LET k == CHOOSE k \in DOMAIN s : s[k] = "."
         IN Ratio(DigitsValue(s), Power10(Len(s) - k))
    ELSE Ratio(DigitsValue(s), 1)

\* 月額800,000円
MonthlyFeeText ==
    <<"u6708", "u984d", "8", "0", "0", ",", "0", "0", "0", "u5186">>

\* C19: for a text whose only amount is one group of digits with thousands
\* separators followed by 円, extract_amounts emits one record, its value the
\* number the group writes without its separators and its currency JPY; for
\* 月額800,000円 the value is 800000.0.
C19_SingleYenAmount ==
    InfoReturned =>
        /\ \A i, j \in DOMAIN text :
               SingleYenAmount(i, j) =>
                   /\ Len(Amounts) = 1
                   /\ RatEq(Amounts[1].value, GroupValue(SubSeq(text, i, j)))
                   /\ Amounts[1].currency = "JPY"
        /\ text = MonthlyFeeText =>
               /\ Len(Amounts) = 1
               /\ RatEq(Amounts[1].value, Ratio(800000, 1))
               /\ Amounts[1].currency = "JPY"

\* a group with a separator, in a text with more than the amount
C19_Witness ==
    /\ InfoReturned
    /\ text # MonthlyFeeText
    /\ \E i, j \in DOMAIN text :
           /\ SingleYenAmount(i, j)
           /\ \E k \in i..j : text[k] = ","
    /\ Len(Amounts) = 1

\* C20: the returned clauses have at most one clause of each type, and a
\* text with a paragraph of more than 20 characters that has 解除 has
\* exactly one clause of type termination.
C20_OneClausePerType ==
    InfoReturned =>
        /\ \A i, j \in DOMAIN Clauses : Clauses[i].type = Clauses[j].type => i = j
        /\ (\E k \in DOMAIN ReSplit(ParagraphEnd, text) :
               LET paragraph == ReSplit(ParagraphEnd, text)[k]
               IN Contains(paragraph, <<"u89e3", "u9664">>) /\ Len(Strip(paragraph)) > 20)
               => Cardinality({i \in DOMAIN Clauses : Clauses[i].type = "termination"}) = 1

\* the paragraphs of the text, split on blank lines (line 450)
Paragraphs == ReSplit(ParagraphEnd, text)

\* paragraph k has the keyword and more than 20 characters after trimming
Qualifies(paragraphs, k, keyword) ==
    /\ Contains(paragraphs[k], keyword)
    /\ Len(Strip(paragraphs[k])) > 20

\* content is paragraph k, trimmed and cut to 500 characters
IsContentOf(content, paragraphs, k) ==
    LET trimmed == Strip(paragraphs[k])
    IN /\ Len(content) <= 500
       /\ content = SubSeq(trimmed, 1, Len(content))
       /\ Len(content) = Len(trimmed) \/ Len(content) = 500

\* C21: no two clauses of a result have the same type and keyword, and the
\* content of each clause is the trimmed text, cut to at most 500
\* characters, of the first paragraph in text order that has the keyword of
\* the clause and a trimmed length above 20.
C21_ClauseContent ==
    InfoReturned =>
        /\ \A i, j \in DOMAIN Clauses :
               (Clauses[i].type = Clauses[j].type
                    /\ Clauses[i].keyword = Clauses[j].keyword) => i = j
        /\ \A paragraphs \in {Paragraphs} :
               \A i \in DOMAIN Clauses :
                   \E k \in DOMAIN paragraphs :
                       /\ Qualifies(paragraphs, k, Clauses[i].keyword)
                       /\ \A h \in 1..(k - 1) :
                              ~Qualifies(paragraphs, h, Clauses[i].keyword)
                       /\ IsContentOf(Clauses[i].content, paragraphs, k)

\* one result with a clause whose paragraph follows a shorter paragraph with
\* the same keyword, a clause whose paragraph is followed by another one
\* that qualifies, and a clause whose paragraph was trimmed and cut
C21_Witness ==
    /\ InfoReturned
    /\ Clauses # <<>>
    /\ \E paragraphs \in {Paragraphs} :
           /\ \E i \in DOMAIN Clauses : \E h, k \in DOMAIN paragraphs :
                  /\ h < k
                  /\ Contains(paragraphs[h], Clauses[i].keyword)
                  /\ Qualifies(paragraphs, k, Clauses[i].keyword)
                  /\ IsContentOf(Clauses[i].content, paragraphs, k)
                  /\ Len(Clauses[i].content) = Len(Strip(paragraphs[k]))
           /\ \E i \in DOMAIN Clauses : \E h, k \in DOMAIN paragraphs :
                  /\ h < k
                  /\ Qualifies(paragraphs, h, Clauses[i].keyword)
                  /\ Qualifies(paragraphs, k, Clauses[i].keyword)
                  /\ paragraphs[h] # paragraphs[k]
                  /\ IsContentOf(Clauses[i].content, paragraphs, h)
           /\ \E i \in DOMAIN Clauses : \E k \in DOMAIN paragraphs :
                  /\ Len(Strip(paragraphs[k])) > 500
                  /\ Strip(paragraphs[k]) # paragraphs[k]
                  /\ Qualifies(paragraphs, k, Clauses[i].keyword)
                  /\ Len(Clauses[i].content) = 500

\* the record has a position field
HasPosition(r) == "position" \in DOMAIN r

\* the characters of the text from the zero-based offset position on are s
FoundAt(s, position) ==
    /\ position + Len(s) <= Len(text)
    /\ SubSeq(text, position + 1, position + Len(s)) = s

\* C22: every item of parties, all_dates, amounts, key_terms and clauses has
\* a position field, the zero-based offset in the text at which the item
\* (the name, the original text, the sentence, the paragraph) was found.
C22_PositionOfEveryItem ==
    InfoReturned =>
        /\ \A i \in DOMAIN Parties :
               HasPosition(Parties[i])
                   /\ FoundAt(Parties[i].name, Parties[i].position)
        /\ Dates # EmptyDict =>
               \A i \in DOMAIN Dates.all_dates :
                   HasPosition(Dates.all_dates[i])
                       /\ FoundAt(Dates.all_dates[i].original_text,
                                  Dates.all_dates[i].position)
        /\ \A i \in DOMAIN Amounts :
               HasPosition(Amounts[i])
                   /\ FoundAt(Amounts[i].original_text, Amounts[i].position)
        /\ \A i \in DOMAIN KeyTerms :
               HasPosition(KeyTerms[i])
                   /\ FoundAt(KeyTerms[i].text, KeyTerms[i].position)
        /\ \A i \in DOMAIN Clauses :
               HasPosition(Clauses[i])
                   /\ FoundAt(Clauses[i].content, Clauses[i].position)

\* the sentences of the text, split on 。, ． and line breaks (line 422),
\* each of them trimmed
TrimmedSentences ==
    LET sentences == ReSplit(SentenceEnd, text)
    IN [i \in DOMAIN sentences |-> Strip(sentences[i])]

\* the pairs of a sentence and a keyword, by their indices, such that the
\* sentence has the keyword and more than 10 characters after trimming
TermPairs(trimmed) ==
    {p \in (DOMAIN trimmed) \X (DOMAIN important_keywords) :
        /\ Len(trimmed[p[1]]) > 10
        /\ Contains(trimmed[p[1]], important_keywords[p[2]])}

\* 責任, 義務, 違約金, 解除
HighImportance ==
    {<<"u8cac", "u4efb">>,
     <<"u7fa9", "u52d9">>,
     <<"u9055", "u7d04", "u91d1">>,
     <<"u89e3", "u9664">>}

\* C23: before the cut to 20, extract_key_terms has exactly one record for
\* each pair of a sentence and a keyword such that the sentence has a trimmed
\* length above 10 and contains the keyword; the importance of a record is
\* high if its keyword is 責任, 義務, 違約金 or 解除 and medium if not; the
\* returned list is the first 20 of these records.
C23_OneTermPerPair ==
    InfoReturned =>
        \A trimmed \in {TrimmedSentences} :
        \A terms \in {MatchedTerms} :
        \A pairs \in {TermPairs(trimmed)} :
            /\ Len(terms) = Cardinality(pairs)
            /\ \A p \in pairs :
                   Cardinality({n \in DOMAIN terms :
                                   /\ terms[n].keyword = important_keywords[p[2]]
                                   /\ terms[n].text = trimmed[p[1]]})
                     = Cardinality({q \in pairs :
                                       /\ q[2] = p[2]
                                       /\ trimmed[q[1]] = trimmed[p[1]]})
            /\ \A n \in DOMAIN terms :
                   /\ \E p \in pairs :
                          /\ terms[n].keyword = important_keywords[p[2]]
                          /\ terms[n].text = trimmed[p[1]]
                   /\ terms[n].importance =
                          IF terms[n].keyword \in HighImportance
                          THEN "high" ELSE "medium"
            /\ Len(KeyTerms) = (IF Len(terms) < 20 THEN Len(terms) ELSE 20)
            /\ KeyTerms = SubSeq(terms, 1, Len(KeyTerms))

\* a text with two sentences that have the same keyword, one sentence with
\* more than one keyword, a keyword of high and one of medium importance,
\* and a sentence with a keyword that is too short
C23_Witness ==
    /\ InfoReturned
    /\ \E n \in DOMAIN KeyTerms : KeyTerms[n].importance = "high"
    /\ \E n \in DOMAIN KeyTerms : KeyTerms[n].importance = "medium"
    /\ \E trimmed \in {TrimmedSentences} :
           /\ \E pairs \in {TermPairs(trimmed)} :
                  /\ \E p, q \in pairs : p[1] # q[1] /\ p[2] = q[2]
                  /\ \E p, q \in pairs : p[1] = q[1] /\ p[2] # q[2]
           /\ \E i \in DOMAIN trimmed : \E k \in DOMAIN important_keywords :
                  /\ Contains(trimmed[i], important_keywords[k])
                  /\ Len(trimmed[i]) <= 10

\* the matches of the four amount patterns, each with the index of its
\* pattern
AmountMatches ==
    UNION {{<<p, m>> : m \in Range(FindIter(amount_patterns[p], text))} :
           p \in DOMAIN amount_patterns}

\* the characters of s are digits with at most one point among them
IsNumeral(s) ==
    /\ \A k \in DOMAIN s : s[k] \in Digit \cup {"."}
    /\ \E k \in DOMAIN s : s[k] \in Digit
    /\ \A j, k \in DOMAIN s : (s[j] = "." /\ s[k] = ".") => j = k

\* the record is the one extract_amounts appends for the match
AmountRecordOf(pm, r) ==
    r.position = Start(pm[2]) /\ r.original_text = Group0(text, pm[2])

Fields == {"parties", "dates", "amounts", "key_terms", "clauses"}

\* what the pass of a field returns for the text
PassOf(field) ==
    CASE field = "parties" -> extract_parties(text)
      [] field = "dates" -> extract_dates(text)
      [] field = "amounts" -> extract_amounts(text)
      [] field = "key_terms" -> extract_key_terms(text)
      [] field = "clauses" -> classify_clauses(text)

\* the orders in which the five passes can store their results
Orders == {order \in [1..5 -> Fields] : Range(order) = Fields}

\* the record after the passes stored their results in the given order
RECURSIVE RunPasses(_, _, _)
RunPasses(info, order, results) ==
    IF order = <<>> THEN info
    ELSE RunPasses(StoreResult(info, Head(order), results[Head(order)]),
                   Tail(order), results)

GroupFirst(pm) == pm[2].groups[1][1]
GroupLast(pm) == pm[2].groups[1][2] - 1

\* C30: the digit group of an amount record is a whole number of the text:
\* no digit stands directly before or after the group, and the value is the
\* number the group writes (1500円 gives 1500.0, never 500.0).
C30_WholeNumbers ==
    InfoReturned =>
        \A matches \in {AmountMatches} :
            \A i \in DOMAIN Amounts :
                \E pm \in matches :
                    /\ AmountRecordOf(pm, Amounts[i])
                    /\ GroupFirst(pm) > 1 => text[GroupFirst(pm) - 1] \notin Digit
                    /\ GroupLast(pm) < Len(text) => text[GroupLast(pm) + 1] \notin Digit
                    /\ RatEq(Amounts[i].value,
                             GroupValue(SubSeq(text, GroupFirst(pm), GroupLast(pm))))

(***************************************************************************)
(* AIService._validate_rate_limit (functions-ai/main.py).  The calls of    *)
(* one user run side by side; every call reads the user's document and     *)
(* increments its counters in two separate operations of the store.        *)
(***************************************************************************)
\* the calls of the user that run at one time
MaxRequests == 2
\* how often the clock moves on to another minute or day
MaxTicks == 1
\* how many operations of the store raise
MaxFailures == 1

\* line 255
MinuteLimit == 10
\* line 260
DayLimit == 100

Requests == 1..MaxRequests

\* lines 244 and 254: f'minute_{now.strftime("%Y-%m-%d-%H-%M")}'
MinuteKey(t) == <<"minute", t.day, t.minute>>
\* lines 245 and 259: f'day_{now.strftime("%Y-%m-%d")}'
DayKey(t) == <<"day", t.day>>

\* no document of the user in user_ai_usage
NoUsage == <<>>

\* the document after 98 admitted calls in the ten minutes before the first
\* minute of the clock
EarlierUsage ==
    [k \in {MinuteKey([day |-> 0, minute |-> -i]) : i \in 1..10}
            \cup {DayKey([day |-> 0])} |->
        IF k = DayKey([day |-> 0]) THEN 98
        ELSE IF k = MinuteKey([day |-> 0, minute |-> -1]) THEN 8 ELSE 10]

\* line 250: user_usage.exists
Exists(doc) == DOMAIN doc # {}

\* lines 254 and 259: usage_data.get(key, 0)
Get(doc, key) == IF key \in DOMAIN doc THEN doc[key] ELSE 0

\* firestore.Increment(1) on one field, merge=True
Increment(doc, key) ==
    [k \in DOMAIN doc \cup {key} |-> IF k = key THEN Get(doc, key) + 1 ELSE doc[k]]

\* lines 250-261: the call is not turned away
WithinLimits(doc, minute_key, day_key) ==
    ~Exists(doc)
      \/ (Get(doc, minute_key) < MinuteLimit /\ Get(doc, day_key) < DayLimit)

NoRequest == [pc |-> "idle"]

RateInit ==
    /\ OcrIdle
    /\ InfoIdle
    /\ ChatIdle
    /\ now = [day |-> 0, minute |-> 0]
    /\ usage \in {NoUsage, EarlierUsage}
    /\ request = [r \in Requests |-> NoRequest]
    /\ admitted = usage
    /\ failures = 0
    /\ ticks = 0

\* return True, for a call that named these fields
Admit(r) ==
    /\ admitted' = Increment(Increment(admitted, request[r].minute_key),
                             request[r].day_key)
    /\ request' = [request EXCEPT ![r] = NoRequest]

\* lines 272-274: the handler of a store operation that raised
StoreRaises(r) ==
    /\ failures < MaxFailures
    /\ failures' = failures + 1
    /\ Admit(r)
    /\ UNCHANGED usage

\* lines 243-245
ReadClock(r) ==
    /\ request[r].pc = "idle"
    /\ request' = [request EXCEPT ![r] =
                      [pc |-> "get", minute_key |-> MinuteKey(now),
                       day_key |-> DayKey(now)]]
    /\ UNCHANGED <<now, usage, admitted, failures, ticks>>
    /\ UNCHANGED <<ocr_vars, info_vars, chat_vars>>

\* lines 247-261: the read of the document and the two checks
GetUsage(r) ==
    /\ request[r].pc = "get"
    /\ \/ /\ IF WithinLimits(usage, request[r].minute_key, request[r].day_key)
             THEN request' = [request EXCEPT ![r].pc = "set"]
             ELSE request' = [request EXCEPT ![r] = NoRequest]
          /\ UNCHANGED <<usage, admitted, failures>>
       \/ StoreRaises(r)
    /\ UNCHANGED <<now, ticks>>
    /\ UNCHANGED <<ocr_vars, info_vars, chat_vars>>

\* lines 264-270: the increments of the two counters, and return True
SetUsage(r) ==
    /\ request[r].pc = "set"
    /\ \/ /\ usage' = Increment(Increment(usage, request[r].minute_key),
                                request[r].day_key)
          /\ Admit(r)
          /\ UNCHANGED failures
       \/ StoreRaises(r)
    /\ UNCHANGED <<now, ticks>>
    /\ UNCHANGED <<ocr_vars, info_vars, chat_vars>>

\* the clock moves on to the next minute or to the first minute of the next
\* day
Tick ==
    /\ ticks < MaxTicks
    /\ ticks' = ticks + 1
    /\ \/ now' = [now EXCEPT !.minute = @ + 1]
       \/ now' = [day |-> now.day + 1, minute |-> 0]
    /\ UNCHANGED <<usage, request, admitted, failures>>
    /\ UNCHANGED <<ocr_vars, info_vars, chat_vars>>

\* C28: while no operation of the store raised, at most 10 calls that named
\* one calendar minute and at most 100 calls that named one calendar day
\* returned True, however the calls of the user interleave.
C28_RateLimitHolds ==
    failures = 0 =>
        \A k \in DOMAIN admitted :
            admitted[k] <= (IF k[1] = "minute" THEN 10 ELSE 100)

(***************************************************************************)
(* AIService.chat_with_contract (functions-ai/main.py) and the client that *)
(* sends the returned updated_history as the chat_history of its next      *)
(* call (test_ai.py, test_chat).  A message of a history is a record; a    *)
(* message that is no dict is the record [str |-> ...].                    *)
(***************************************************************************)
\* the calls of one conversation
MaxCalls == 3

\* request_json.get('question')
Questions == {"q1", "q2"}
\* response.content
Answers == {"a1"}
\* datetime.now().isoformat() at lines 457 and 458
Timestamps == {<<"t1", "t1">>, <<"t1", "t2">>, <<"t2", "t2">>}
\* str(e) of what the model client and the store raise
ChatErrors == {"timeout"}

\* request_json.get('chat_history', []) of the first call: no history; four
\* messages, one without role and one without content; a message that is no
\* dict; six messages, the first of them no dict
Histories ==
    {<<>>,
     <<[role |-> "user", content |-> "q0", timestamp |-> "t0"],
       [role |-> "assistant", content |-> "a0", timestamp |-> "t0"],
       [content |-> "q0"],
       [role |-> "assistant"]>>,
     <<[str |-> "q0"]>>,
     <<[str |-> "q0"],
       [role |-> "user", content |-> "q0", timestamp |-> "t0"],
       [role |-> "assistant", content |-> "a0", timestamp |-> "t0"],
       [role |-> "user", content |-> "q1", timestamp |-> "t0"],
       [role |-> "assistant", content |-> "a1", timestamp |-> "t0"],
       [role |-> "system", content |-> "a0"]>>}

\* chat_history[-5:]
LastFive(history) ==
    SubSeq(history, IF Len(history) > 5 THEN Len(history) - 4 ELSE 1, Len(history))

\* msg.get exists
IsDict(msg) == "str" \notin DOMAIN msg
\* line 413: msg.get('role', 'user')
Role(msg) == IF "role" \in DOMAIN msg THEN msg.role ELSE "user"
\* line 414: msg.get('content', '')
Content(msg) == IF "content" \in DOMAIN msg THEN msg.content ELSE ""
\* line 415: f"{role}: {content}\n"
Line(msg) == <<Role(msg), ": ", Content(msg), "\n">>

\* lines 411-415: history_text, line by line
HistoryText(history) ==
    [i \in 1..Len(LastFive(history)) |-> Line(LastFive(history)[i])]

\* an update that keeps the messages of the prompt only
UpdatedRecentHistory(history, q, content, stamps) ==
    LastFive(history)
        \o <<[role |-> "user", content |-> q, timestamp |-> stamps[1]],
             [role |-> "assistant", content |-> content, timestamp |-> stamps[2]]>>

\* lines 456-459
UpdatedHistory(history, q, content, stamps) ==
    history
        \o <<[role |-> "user", content |-> q, timestamp |-> stamps[1]],
             [role |-> "assistant", content |-> content, timestamp |-> stamps[2]]>>

ChatInit ==
    /\ OcrIdle
    /\ InfoIdle
    /\ RateIdle
    /\ chat_history \in Histories
    /\ question = ""
    /\ chat_pc = "idle"
    /\ history_text = <<>>
    /\ response = ""
    /\ chat_result = NoInfo
    /\ sessions = <<>>
    /\ first_history = chat_history
    /\ exchanges = <<>>
    /\ calls = 0

\* lines 473-480; the answer is the apology of line 476 followed by str(e)
ChatFails(e) ==
    /\ chat_result' = [answer |-> <<"apology", e>>,
                       metadata |-> [error |-> e],
                       session_id |-> None,
                       updated_history |-> chat_history]
    /\ chat_pc' = "returned"

\* test_ai.py lines 237-258 and 273, main.py lines 689-702: the first call
\* sends the history the client has, a later call the updated_history of the
\* call before
CallChat ==
    /\ chat_pc \in {"idle", "returned"}
    /\ calls < MaxCalls
    /\ calls' = calls + 1
    /\ question' \in Questions
    /\ chat_history' = IF chat_pc = "idle" THEN chat_history
                       ELSE chat_result.updated_history
    /\ history_text' = <<>>
    /\ response' = ""
    /\ chat_result' = NoInfo
    /\ chat_pc' = "history"
    /\ UNCHANGED <<sessions, first_history, exchanges>>
    /\ UNCHANGED <<ocr_vars, info_vars, rate_vars>>

\* lines 411-415; msg.get raises AttributeError for a message that is no dict
BuildHistory ==
    /\ chat_pc = "history"
    /\ IF \A i \in DOMAIN LastFive(chat_history) : IsDict(LastFive(chat_history)[i])
       THEN /\ history_text' = HistoryText(chat_history)
            /\ chat_pc' = "invoke"
            /\ UNCHANGED chat_result
       ELSE /\ ChatFails("AttributeError")
            /\ UNCHANGED history_text
    /\ UNCHANGED <<chat_history, question, response, sessions, first_history,
                   exchanges, calls>>
    /\ UNCHANGED <<ocr_vars, info_vars, rate_vars>>

\* lines 418-441: the prompt with history_text, the call of the model, the
\* token counts and _track_usage, which catches what its store raises
Invoke ==
    /\ chat_pc = "invoke"
    /\ \/ /\ response' \in Answers
          /\ chat_pc' = "save"
          /\ UNCHANGED chat_result
       \/ /\ \E e \in ChatErrors : ChatFails(e)
          /\ UNCHANGED response
    /\ UNCHANGED <<chat_history, question, history_text, sessions,
                   first_history, exchanges, calls>>
    /\ UNCHANGED <<ocr_vars, info_vars, rate_vars>>

\* lines 444-471: the result, the updated history and the new document of
\* ai_chat_sessions
SaveSession ==
    /\ chat_pc = "save"
    /\ \/ \E stamps \in Timestamps :
             LET updated_history ==
                     UpdatedHistory(chat_history, question, response, stamps)
             IN /\ sessions' = Append(sessions, updated_history)
                /\ chat_result' = [answer |-> <<response>>,
                                   metadata |-> [model |-> "gpt-4"],
                                   session_id |-> [id |-> Len(sessions) + 1],
                                   updated_history |-> updated_history]
                /\ exchanges' = Append(exchanges,
                                       [question |-> question, answer |-> response,
                                        stamps |-> stamps])
                /\ chat_pc' = "returned"
       \/ /\ \E e \in ChatErrors : ChatFails(e)
          /\ UNCHANGED <<sessions, exchanges>>
    /\ UNCHANGED <<chat_history, question, history_text, response,
                   first_history, calls>>
    /\ UNCHANGED <<ocr_vars, info_vars, rate_vars>>

ChatReturned == chat_pc = "returned"
ChatSucceeded == ChatReturned /\ chat_result.session_id # None

\* the two messages of every exchange, in order
RECURSIVE MessagesOf(_)
MessagesOf(xs) ==
    IF xs = <<>> THEN <<>>
    ELSE <<[role |-> "user", content |-> Head(xs).question,
            timestamp |-> Head(xs).stamps[1]],
           [role |-> "assistant", content |-> Head(xs).answer,
            timestamp |-> Head(xs).stamps[2]]>>
         \o MessagesOf(Tail(xs))

\* C29: a call that succeeds returns as updated_history the chat_history it
\* was given followed by two messages, the question of the user and then the
\* answer of the assistant; a call that fails returns the chat_history it was
\* given; the history a client feeds back call after call is the first
\* history followed by the questions and answers of the calls that
\* succeeded, in order; and the prompt has a line for each of the last 5
\* messages of chat_history and for no other.
C29_HistoryGrowsByTwo ==
    /\ ChatSucceeded =>
           LET updated == chat_result.updated_history
               n == Len(chat_history)
           IN /\ Len(updated) = n + 2
              /\ SubSeq(updated, 1, n) = chat_history
              /\ updated[n + 1].role = "user"
              /\ updated[n + 1].content = question
              /\ updated[n + 2].role = "assistant"
              /\ updated[n + 2].content = response
              /\ chat_result.answer = <<response>>
              /\ updated = first_history \o MessagesOf(exchanges)
    /\ (ChatReturned /\ ~ChatSucceeded) =>
           /\ chat_result.updated_history = chat_history
           /\ chat_history = first_history \o MessagesOf(exchanges)
    /\ (chat_pc \in {"invoke", "save"} \/ ChatSucceeded) =>
           LET n == Len(chat_history)
               k == IF n < 5 THEN n ELSE 5
           IN /\ Len(history_text) = k
              /\ \A i \in 1..k :
                     LET msg == chat_history[n - k + i]
                     IN history_text[i] =
                            <<IF "role" \in DOMAIN msg THEN msg.role ELSE "user",
                              ": ",
                              IF "content" \in DOMAIN msg THEN msg.content ELSE "",
                              "\n">>

\* the third call of a conversation succeeds on a history of more than 5
\* messages, after one call that succeeded and one that failed
C29_Witness ==
    /\ ChatSucceeded
    /\ calls = 3 /\ Len(exchanges) = 2
    /\ Len(chat_history) > 5
    /\ Len(history_text) = 5
    /\ first_history # <<>>

Next ==
    \/ CallPdf
    \/ PyPDF2Open
    \/ PyPDF2Page
    \/ PyPDF2Done
    \/ PdfplumberOpen
    \/ PdfplumberPage
    \/ PdfplumberDone
    \/ VisionCallPdf
    \/ PreprocessImage
    \/ VisionOpen
    \/ VisionDetect
    \/ VisionPage
    \/ VisionDone
    \/ VisionBlock
    \/ VisionPageDone
    \/ VisionParagraph
    \/ VisionBlockDone
    \/ VisionWord
    \/ VisionParagraphDone

Spec == Init /\ [][Next]_vars

InfoNext ==
    \/ CallInfo
    \/ ExtractParties
    \/ ExtractDates
    \/ ExtractAmounts
    \/ ExtractKeyTerms
    \/ ClassifyClauses
    \/ ReturnInfo

InfoSpec == InfoInit /\ [][InfoNext]_vars

RateNext ==
    \/ \E r \in Requests : ReadClock(r)
    \/ \E r \in Requests : GetUsage(r)
    \/ \E r \in Requests : SetUsage(r)
    \/ Tick

RateSpec == RateInit /\ [][RateNext]_vars

ChatNext ==
    \/ CallChat
    \/ BuildHistory
    \/ Invoke
    \/ SaveSession

ChatSpec == ChatInit /\ [][ChatNext]_vars

====
